---------------------------- MODULE Spec2Model ----------------------------
(***************************************************************************)
(* A model of the `osdctl assist` diagnostic-collection subcommands:       *)
(*   pruning-cronjob-error-sre, cluster-monitoring-error-budget-burn-sre,  *)
(*   dynatrace-monitoring-stack-down-sre, cluster-provisioning-failure.    *)
(*                                                                         *)
(* Three specifications share the module:                                  *)
(*   Spec          the run() method of each subcommand, step by step       *)
(*   SpecComplete  the LLM-setting resolution of complete()                *)
(*   SpecExtract   extractAndReadDiagnostics(), file by file               *)
(***************************************************************************)
EXTENDS Integers, Sequences, FiniteSets, TLC

VARIABLES
    cmd,            \* the subcommand being run
    o,              \* the options struct after complete()
    pc,             \* position inside run()
    ci,             \* index of the next collector run() will call
    trace,          \* the steps run() has executed, in order
    result,         \* what run() returned: "none" (still running), "nil", "error"
    files,          \* files this run has written into outputDir
    ocVerbs,        \* cluster-CLI (oc) subcommands invoked so far
    ocmUsed,        \* TRUE once an ocm invocation was made
    failed,         \* the failures so far, in order: [step, calls]
    warnings,       \* the steps run() printed a warning for
    conversationHistory, \* interactiveFollowUp's transcript (a program variable)
    exchanges,      \* what the chat-completion endpoint received and answered
    analysisFile,   \* chunks of NN-llm-analysis.txt; <<>> when it does not exist
    turns,          \* follow-up questions asked so far
    scanned,        \* what the follow-up prompt read last: a line, eof or an error
    summary,         \* what 00-SUMMARY.txt says: Files Collected, install-log note
    cin,            \* complete(): flags, config file and environment
    cout,           \* complete(): the resolved options and the returned error
    xcmd,           \* extractAndReadDiagnostics(): subcommand
    xdir,           \* extractAndReadDiagnostics(): pods with files in outputDir
    xi,             \* extractAndReadDiagnostics(): index of the next file to read
    xpiece,         \* extractAndReadDiagnostics(): what the last file read contributed
    xcount,         \* extractAndReadDiagnostics(): sections written to the content
    xmax,           \* extractAndReadDiagnostics(): bytes of the longest piece so far
    dnow,           \* output directories: the clock, in ticks
    druns,          \* output directories: the runs started, each with its directory
    ddisk,          \* output directories: <<dir, file, writers>> for every file on disk
    call,           \* one collector call: subcommand, collector, options, environment
    outcome         \* one collector call: its calls, files, return value, note

vars == <<cmd, o, pc, ci, trace, result, files, ocVerbs, ocmUsed, failed,
          warnings, conversationHistory, exchanges, analysisFile, turns, scanned, summary,
          cin, cout, xcmd, xdir, xi, xpiece, xcount, xmax,
          dnow, druns, ddisk, call, outcome>>

runVars == <<cmd, o, pc, ci, trace, result, files, ocVerbs, ocmUsed, failed,
             warnings, conversationHistory, exchanges, analysisFile, turns, scanned, summary>>
completeVars == <<cin, cout>>
extractVars == <<xcmd, xdir, xi, xpiece, xcount, xmax>>
dirVars == <<dnow, druns, ddisk>>
callVars == <<call, outcome>>

---------------------------------------------------------------------------
(* Bounds of the model.                                                    *)

MaxPods == 1
MaxJobs == 1
MaxTurns == 2
MaxFailures == 1
MaxCallPods == 2
MaxDirPods == 6
MaxFileSize == 50000

---------------------------------------------------------------------------
(* Strings are sequences of characters, so that trimming and case folding  *)
(* are computed, not assumed.  A character is a one-character string; a    *)
(* character that cannot be written in one is named by its code point      *)
(* ("U+00A0" is the no-break space).                                       *)

RECURSIVE TrimLeft(_, _)
TrimLeft(s, cutset) ==
    IF s # <<>> /\ Head(s) \in cutset THEN TrimLeft(Tail(s), cutset) ELSE s

RECURSIVE TrimRight(_, _)
TrimRight(s, cutset) ==
    IF s # <<>> /\ s[Len(s)] \in cutset
    THEN TrimRight(SubSeq(s, 1, Len(s) - 1), cutset)
    ELSE s

Trim(s, cutset) == TrimRight(TrimLeft(s, cutset), cutset)

(* unicode.IsSpace, which strings.TrimSpace trims: tab, line feed,         *)
(* vertical tab, form feed, carriage return, space, next line, no-break    *)
(* space and the Unicode space separators.                                 *)
WhiteSpace ==
    {"\t", "\n", "U+000B", "\f", "\r", " ", "U+0085", "U+00A0", "U+1680",
     "U+2000", "U+2001", "U+2002", "U+2003", "U+2004", "U+2005", "U+2006",
     "U+2007", "U+2008", "U+2009", "U+200A", "U+2028", "U+2029", "U+202F",
     "U+205F", "U+3000"}
TrimSpace(s) == Trim(s, WhiteSpace)

(* unicode.ToLower: every character that has a lower-case form, with that  *)
(* form (the simple case mapping of Unicode 15.0, which the unicode        *)
(* package carries in its CaseRanges table; U+0130, the dotted capital I,  *)
(* goes to i and U+212A, the Kelvin sign, to k).                           *)
CaseRanges ==
    <<<<"A", "a">>, <<"B", "b">>, <<"C", "c">>, <<"D", "d">>, <<"E", "e">>,
      <<"F", "f">>, <<"G", "g">>, <<"H", "h">>, <<"I", "i">>, <<"J", "j">>,
      <<"K", "k">>, <<"L", "l">>, <<"M", "m">>, <<"N", "n">>, <<"O", "o">>,
      <<"P", "p">>, <<"Q", "q">>, <<"R", "r">>, <<"S", "s">>, <<"T", "t">>,
      <<"U", "u">>, <<"V", "v">>, <<"W", "w">>, <<"X", "x">>, <<"Y", "y">>,
      <<"Z", "z">>, <<"U+00C0", "U+00E0">>, <<"U+00C1", "U+00E1">>,
      <<"U+00C2", "U+00E2">>, <<"U+00C3", "U+00E3">>, <<"U+00C4", "U+00E4">>,
      <<"U+00C5", "U+00E5">>, <<"U+00C6", "U+00E6">>, <<"U+00C7", "U+00E7">>,
      <<"U+00C8", "U+00E8">>, <<"U+00C9", "U+00E9">>, <<"U+00CA", "U+00EA">>,
      <<"U+00CB", "U+00EB">>, <<"U+00CC", "U+00EC">>, <<"U+00CD", "U+00ED">>,
      <<"U+00CE", "U+00EE">>, <<"U+00CF", "U+00EF">>, <<"U+00D0", "U+00F0">>,
      <<"U+00D1", "U+00F1">>, <<"U+00D2", "U+00F2">>, <<"U+00D3", "U+00F3">>,
      <<"U+00D4", "U+00F4">>, <<"U+00D5", "U+00F5">>, <<"U+00D6", "U+00F6">>,
      <<"U+00D8", "U+00F8">>, <<"U+00D9", "U+00F9">>, <<"U+00DA", "U+00FA">>,
      <<"U+00DB", "U+00FB">>, <<"U+00DC", "U+00FC">>, <<"U+00DD", "U+00FD">>,
      <<"U+00DE", "U+00FE">>, <<"U+0100", "U+0101">>, <<"U+0102", "U+0103">>,
      <<"U+0104", "U+0105">>, <<"U+0106", "U+0107">>, <<"U+0108", "U+0109">>,
      <<"U+010A", "U+010B">>, <<"U+010C", "U+010D">>, <<"U+010E", "U+010F">>,
      <<"U+0110", "U+0111">>, <<"U+0112", "U+0113">>, <<"U+0114", "U+0115">>,
      <<"U+0116", "U+0117">>, <<"U+0118", "U+0119">>, <<"U+011A", "U+011B">>,
      <<"U+011C", "U+011D">>, <<"U+011E", "U+011F">>, <<"U+0120", "U+0121">>,
      <<"U+0122", "U+0123">>, <<"U+0124", "U+0125">>, <<"U+0126", "U+0127">>,
      <<"U+0128", "U+0129">>, <<"U+012A", "U+012B">>, <<"U+012C", "U+012D">>,
      <<"U+012E", "U+012F">>, <<"U+0130", "i">>, <<"U+0132", "U+0133">>,
      <<"U+0134", "U+0135">>, <<"U+0136", "U+0137">>, <<"U+0139", "U+013A">>,
      <<"U+013B", "U+013C">>, <<"U+013D", "U+013E">>, <<"U+013F", "U+0140">>,
      <<"U+0141", "U+0142">>, <<"U+0143", "U+0144">>, <<"U+0145", "U+0146">>,
      <<"U+0147", "U+0148">>, <<"U+014A", "U+014B">>, <<"U+014C", "U+014D">>,
      <<"U+014E", "U+014F">>, <<"U+0150", "U+0151">>, <<"U+0152", "U+0153">>,
      <<"U+0154", "U+0155">>, <<"U+0156", "U+0157">>, <<"U+0158", "U+0159">>,
      <<"U+015A", "U+015B">>, <<"U+015C", "U+015D">>, <<"U+015E", "U+015F">>,
      <<"U+0160", "U+0161">>, <<"U+0162", "U+0163">>, <<"U+0164", "U+0165">>,
      <<"U+0166", "U+0167">>, <<"U+0168", "U+0169">>, <<"U+016A", "U+016B">>,
      <<"U+016C", "U+016D">>, <<"U+016E", "U+016F">>, <<"U+0170", "U+0171">>,
      <<"U+0172", "U+0173">>, <<"U+0174", "U+0175">>, <<"U+0176", "U+0177">>,
      <<"U+0178", "U+00FF">>, <<"U+0179", "U+017A">>, <<"U+017B", "U+017C">>,
      <<"U+017D", "U+017E">>, <<"U+0181", "U+0253">>, <<"U+0182", "U+0183">>,
      <<"U+0184", "U+0185">>, <<"U+0186", "U+0254">>, <<"U+0187", "U+0188">>,
      <<"U+0189", "U+0256">>, <<"U+018A", "U+0257">>, <<"U+018B", "U+018C">>,
      <<"U+018E", "U+01DD">>, <<"U+018F", "U+0259">>, <<"U+0190", "U+025B">>,
      <<"U+0191", "U+0192">>, <<"U+0193", "U+0260">>, <<"U+0194", "U+0263">>,
      <<"U+0196", "U+0269">>, <<"U+0197", "U+0268">>, <<"U+0198", "U+0199">>,
      <<"U+019C", "U+026F">>, <<"U+019D", "U+0272">>, <<"U+019F", "U+0275">>,
      <<"U+01A0", "U+01A1">>, <<"U+01A2", "U+01A3">>, <<"U+01A4", "U+01A5">>,
      <<"U+01A6", "U+0280">>, <<"U+01A7", "U+01A8">>, <<"U+01A9", "U+0283">>,
      <<"U+01AC", "U+01AD">>, <<"U+01AE", "U+0288">>, <<"U+01AF", "U+01B0">>,
      <<"U+01B1", "U+028A">>, <<"U+01B2", "U+028B">>, <<"U+01B3", "U+01B4">>,
      <<"U+01B5", "U+01B6">>, <<"U+01B7", "U+0292">>, <<"U+01B8", "U+01B9">>,
      <<"U+01BC", "U+01BD">>, <<"U+01C4", "U+01C6">>, <<"U+01C5", "U+01C6">>,
      <<"U+01C7", "U+01C9">>, <<"U+01C8", "U+01C9">>, <<"U+01CA", "U+01CC">>,
      <<"U+01CB", "U+01CC">>, <<"U+01CD", "U+01CE">>, <<"U+01CF", "U+01D0">>,
      <<"U+01D1", "U+01D2">>, <<"U+01D3", "U+01D4">>, <<"U+01D5", "U+01D6">>,
      <<"U+01D7", "U+01D8">>, <<"U+01D9", "U+01DA">>, <<"U+01DB", "U+01DC">>,
      <<"U+01DE", "U+01DF">>, <<"U+01E0", "U+01E1">>, <<"U+01E2", "U+01E3">>,
      <<"U+01E4", "U+01E5">>, <<"U+01E6", "U+01E7">>, <<"U+01E8", "U+01E9">>,
      <<"U+01EA", "U+01EB">>, <<"U+01EC", "U+01ED">>, <<"U+01EE", "U+01EF">>,
      <<"U+01F1", "U+01F3">>, <<"U+01F2", "U+01F3">>, <<"U+01F4", "U+01F5">>,
      <<"U+01F6", "U+0195">>, <<"U+01F7", "U+01BF">>, <<"U+01F8", "U+01F9">>,
      <<"U+01FA", "U+01FB">>, <<"U+01FC", "U+01FD">>, <<"U+01FE", "U+01FF">>,
      <<"U+0200", "U+0201">>, <<"U+0202", "U+0203">>, <<"U+0204", "U+0205">>,
      <<"U+0206", "U+0207">>, <<"U+0208", "U+0209">>, <<"U+020A", "U+020B">>,
      <<"U+020C", "U+020D">>, <<"U+020E", "U+020F">>, <<"U+0210", "U+0211">>,
      <<"U+0212", "U+0213">>, <<"U+0214", "U+0215">>, <<"U+0216", "U+0217">>,
      <<"U+0218", "U+0219">>, <<"U+021A", "U+021B">>, <<"U+021C", "U+021D">>,
      <<"U+021E", "U+021F">>, <<"U+0220", "U+019E">>, <<"U+0222", "U+0223">>,
      <<"U+0224", "U+0225">>, <<"U+0226", "U+0227">>, <<"U+0228", "U+0229">>,
      <<"U+022A", "U+022B">>, <<"U+022C", "U+022D">>, <<"U+022E", "U+022F">>,
      <<"U+0230", "U+0231">>, <<"U+0232", "U+0233">>, <<"U+023A", "U+2C65">>,
      <<"U+023B", "U+023C">>, <<"U+023D", "U+019A">>, <<"U+023E", "U+2C66">>,
      <<"U+0241", "U+0242">>, <<"U+0243", "U+0180">>, <<"U+0244", "U+0289">>,
      <<"U+0245", "U+028C">>, <<"U+0246", "U+0247">>, <<"U+0248", "U+0249">>,
      <<"U+024A", "U+024B">>, <<"U+024C", "U+024D">>, <<"U+024E", "U+024F">>,
      <<"U+0370", "U+0371">>, <<"U+0372", "U+0373">>, <<"U+0376", "U+0377">>,
      <<"U+037F", "U+03F3">>, <<"U+0386", "U+03AC">>, <<"U+0388", "U+03AD">>,
      <<"U+0389", "U+03AE">>, <<"U+038A", "U+03AF">>, <<"U+038C", "U+03CC">>,
      <<"U+038E", "U+03CD">>, <<"U+038F", "U+03CE">>, <<"U+0391", "U+03B1">>,
      <<"U+0392", "U+03B2">>, <<"U+0393", "U+03B3">>, <<"U+0394", "U+03B4">>,
      <<"U+0395", "U+03B5">>, <<"U+0396", "U+03B6">>, <<"U+0397", "U+03B7">>,
      <<"U+0398", "U+03B8">>, <<"U+0399", "U+03B9">>, <<"U+039A", "U+03BA">>,
      <<"U+039B", "U+03BB">>, <<"U+039C", "U+03BC">>, <<"U+039D", "U+03BD">>,
      <<"U+039E", "U+03BE">>, <<"U+039F", "U+03BF">>, <<"U+03A0", "U+03C0">>,
      <<"U+03A1", "U+03C1">>, <<"U+03A3", "U+03C3">>, <<"U+03A4", "U+03C4">>,
      <<"U+03A5", "U+03C5">>, <<"U+03A6", "U+03C6">>, <<"U+03A7", "U+03C7">>,
      <<"U+03A8", "U+03C8">>, <<"U+03A9", "U+03C9">>, <<"U+03AA", "U+03CA">>,
      <<"U+03AB", "U+03CB">>, <<"U+03CF", "U+03D7">>, <<"U+03D8", "U+03D9">>,
      <<"U+03DA", "U+03DB">>, <<"U+03DC", "U+03DD">>, <<"U+03DE", "U+03DF">>,
      <<"U+03E0", "U+03E1">>, <<"U+03E2", "U+03E3">>, <<"U+03E4", "U+03E5">>,
      <<"U+03E6", "U+03E7">>, <<"U+03E8", "U+03E9">>, <<"U+03EA", "U+03EB">>,
      <<"U+03EC", "U+03ED">>, <<"U+03EE", "U+03EF">>, <<"U+03F4", "U+03B8">>,
      <<"U+03F7", "U+03F8">>, <<"U+03F9", "U+03F2">>, <<"U+03FA", "U+03FB">>,
      <<"U+03FD", "U+037B">>, <<"U+03FE", "U+037C">>, <<"U+03FF", "U+037D">>,
      <<"U+0400", "U+0450">>, <<"U+0401", "U+0451">>, <<"U+0402", "U+0452">>,
      <<"U+0403", "U+0453">>, <<"U+0404", "U+0454">>, <<"U+0405", "U+0455">>,
      <<"U+0406", "U+0456">>, <<"U+0407", "U+0457">>, <<"U+0408", "U+0458">>,
      <<"U+0409", "U+0459">>, <<"U+040A", "U+045A">>, <<"U+040B", "U+045B">>,
      <<"U+040C", "U+045C">>, <<"U+040D", "U+045D">>, <<"U+040E", "U+045E">>,
      <<"U+040F", "U+045F">>, <<"U+0410", "U+0430">>, <<"U+0411", "U+0431">>,
      <<"U+0412", "U+0432">>, <<"U+0413", "U+0433">>, <<"U+0414", "U+0434">>,
      <<"U+0415", "U+0435">>, <<"U+0416", "U+0436">>, <<"U+0417", "U+0437">>,
      <<"U+0418", "U+0438">>, <<"U+0419", "U+0439">>, <<"U+041A", "U+043A">>,
      <<"U+041B", "U+043B">>, <<"U+041C", "U+043C">>, <<"U+041D", "U+043D">>,
      <<"U+041E", "U+043E">>, <<"U+041F", "U+043F">>, <<"U+0420", "U+0440">>,
      <<"U+0421", "U+0441">>, <<"U+0422", "U+0442">>, <<"U+0423", "U+0443">>,
      <<"U+0424", "U+0444">>, <<"U+0425", "U+0445">>, <<"U+0426", "U+0446">>,
      <<"U+0427", "U+0447">>, <<"U+0428", "U+0448">>, <<"U+0429", "U+0449">>,
      <<"U+042A", "U+044A">>, <<"U+042B", "U+044B">>, <<"U+042C", "U+044C">>,
      <<"U+042D", "U+044D">>, <<"U+042E", "U+044E">>, <<"U+042F", "U+044F">>,
      <<"U+0460", "U+0461">>, <<"U+0462", "U+0463">>, <<"U+0464", "U+0465">>,
      <<"U+0466", "U+0467">>, <<"U+0468", "U+0469">>, <<"U+046A", "U+046B">>,
      <<"U+046C", "U+046D">>, <<"U+046E", "U+046F">>, <<"U+0470", "U+0471">>,
      <<"U+0472", "U+0473">>, <<"U+0474", "U+0475">>, <<"U+0476", "U+0477">>,
      <<"U+0478", "U+0479">>, <<"U+047A", "U+047B">>, <<"U+047C", "U+047D">>,
      <<"U+047E", "U+047F">>, <<"U+0480", "U+0481">>, <<"U+048A", "U+048B">>,
      <<"U+048C", "U+048D">>, <<"U+048E", "U+048F">>, <<"U+0490", "U+0491">>,
      <<"U+0492", "U+0493">>, <<"U+0494", "U+0495">>, <<"U+0496", "U+0497">>,
      <<"U+0498", "U+0499">>, <<"U+049A", "U+049B">>, <<"U+049C", "U+049D">>,
      <<"U+049E", "U+049F">>, <<"U+04A0", "U+04A1">>, <<"U+04A2", "U+04A3">>,
      <<"U+04A4", "U+04A5">>, <<"U+04A6", "U+04A7">>, <<"U+04A8", "U+04A9">>,
      <<"U+04AA", "U+04AB">>, <<"U+04AC", "U+04AD">>, <<"U+04AE", "U+04AF">>,
      <<"U+04B0", "U+04B1">>, <<"U+04B2", "U+04B3">>, <<"U+04B4", "U+04B5">>,
      <<"U+04B6", "U+04B7">>, <<"U+04B8", "U+04B9">>, <<"U+04BA", "U+04BB">>,
      <<"U+04BC", "U+04BD">>, <<"U+04BE", "U+04BF">>, <<"U+04C0", "U+04CF">>,
      <<"U+04C1", "U+04C2">>, <<"U+04C3", "U+04C4">>, <<"U+04C5", "U+04C6">>,
      <<"U+04C7", "U+04C8">>, <<"U+04C9", "U+04CA">>, <<"U+04CB", "U+04CC">>,
      <<"U+04CD", "U+04CE">>, <<"U+04D0", "U+04D1">>, <<"U+04D2", "U+04D3">>,
      <<"U+04D4", "U+04D5">>, <<"U+04D6", "U+04D7">>, <<"U+04D8", "U+04D9">>,
      <<"U+04DA", "U+04DB">>, <<"U+04DC", "U+04DD">>, <<"U+04DE", "U+04DF">>,
      <<"U+04E0", "U+04E1">>, <<"U+04E2", "U+04E3">>, <<"U+04E4", "U+04E5">>,
      <<"U+04E6", "U+04E7">>, <<"U+04E8", "U+04E9">>, <<"U+04EA", "U+04EB">>,
      <<"U+04EC", "U+04ED">>, <<"U+04EE", "U+04EF">>, <<"U+04F0", "U+04F1">>,
      <<"U+04F2", "U+04F3">>, <<"U+04F4", "U+04F5">>, <<"U+04F6", "U+04F7">>,
      <<"U+04F8", "U+04F9">>, <<"U+04FA", "U+04FB">>, <<"U+04FC", "U+04FD">>,
      <<"U+04FE", "U+04FF">>, <<"U+0500", "U+0501">>, <<"U+0502", "U+0503">>,
      <<"U+0504", "U+0505">>, <<"U+0506", "U+0507">>, <<"U+0508", "U+0509">>,
      <<"U+050A", "U+050B">>, <<"U+050C", "U+050D">>, <<"U+050E", "U+050F">>,
      <<"U+0510", "U+0511">>, <<"U+0512", "U+0513">>, <<"U+0514", "U+0515">>,
      <<"U+0516", "U+0517">>, <<"U+0518", "U+0519">>, <<"U+051A", "U+051B">>,
      <<"U+051C", "U+051D">>, <<"U+051E", "U+051F">>, <<"U+0520", "U+0521">>,
      <<"U+0522", "U+0523">>, <<"U+0524", "U+0525">>, <<"U+0526", "U+0527">>,
      <<"U+0528", "U+0529">>, <<"U+052A", "U+052B">>, <<"U+052C", "U+052D">>,
      <<"U+052E", "U+052F">>, <<"U+0531", "U+0561">>, <<"U+0532", "U+0562">>,
      <<"U+0533", "U+0563">>, <<"U+0534", "U+0564">>, <<"U+0535", "U+0565">>,
      <<"U+0536", "U+0566">>, <<"U+0537", "U+0567">>, <<"U+0538", "U+0568">>,
      <<"U+0539", "U+0569">>, <<"U+053A", "U+056A">>, <<"U+053B", "U+056B">>,
      <<"U+053C", "U+056C">>, <<"U+053D", "U+056D">>, <<"U+053E", "U+056E">>,
      <<"U+053F", "U+056F">>, <<"U+0540", "U+0570">>, <<"U+0541", "U+0571">>,
      <<"U+0542", "U+0572">>, <<"U+0543", "U+0573">>, <<"U+0544", "U+0574">>,
      <<"U+0545", "U+0575">>, <<"U+0546", "U+0576">>, <<"U+0547", "U+0577">>,
      <<"U+0548", "U+0578">>, <<"U+0549", "U+0579">>, <<"U+054A", "U+057A">>,
      <<"U+054B", "U+057B">>, <<"U+054C", "U+057C">>, <<"U+054D", "U+057D">>,
      <<"U+054E", "U+057E">>, <<"U+054F", "U+057F">>, <<"U+0550", "U+0580">>,
      <<"U+0551", "U+0581">>, <<"U+0552", "U+0582">>, <<"U+0553", "U+0583">>,
      <<"U+0554", "U+0584">>, <<"U+0555", "U+0585">>, <<"U+0556", "U+0586">>,
      <<"U+10A0", "U+2D00">>, <<"U+10A1", "U+2D01">>, <<"U+10A2", "U+2D02">>,
      <<"U+10A3", "U+2D03">>, <<"U+10A4", "U+2D04">>, <<"U+10A5", "U+2D05">>,
      <<"U+10A6", "U+2D06">>, <<"U+10A7", "U+2D07">>, <<"U+10A8", "U+2D08">>,
      <<"U+10A9", "U+2D09">>, <<"U+10AA", "U+2D0A">>, <<"U+10AB", "U+2D0B">>,
      <<"U+10AC", "U+2D0C">>, <<"U+10AD", "U+2D0D">>, <<"U+10AE", "U+2D0E">>,
      <<"U+10AF", "U+2D0F">>, <<"U+10B0", "U+2D10">>, <<"U+10B1", "U+2D11">>,
      <<"U+10B2", "U+2D12">>, <<"U+10B3", "U+2D13">>, <<"U+10B4", "U+2D14">>,
      <<"U+10B5", "U+2D15">>, <<"U+10B6", "U+2D16">>, <<"U+10B7", "U+2D17">>,
      <<"U+10B8", "U+2D18">>, <<"U+10B9", "U+2D19">>, <<"U+10BA", "U+2D1A">>,
      <<"U+10BB", "U+2D1B">>, <<"U+10BC", "U+2D1C">>, <<"U+10BD", "U+2D1D">>,
      <<"U+10BE", "U+2D1E">>, <<"U+10BF", "U+2D1F">>, <<"U+10C0", "U+2D20">>,
      <<"U+10C1", "U+2D21">>, <<"U+10C2", "U+2D22">>, <<"U+10C3", "U+2D23">>,
      <<"U+10C4", "U+2D24">>, <<"U+10C5", "U+2D25">>, <<"U+10C7", "U+2D27">>,
      <<"U+10CD", "U+2D2D">>, <<"U+13A0", "U+AB70">>, <<"U+13A1", "U+AB71">>,
      <<"U+13A2", "U+AB72">>, <<"U+13A3", "U+AB73">>, <<"U+13A4", "U+AB74">>,
      <<"U+13A5", "U+AB75">>, <<"U+13A6", "U+AB76">>, <<"U+13A7", "U+AB77">>,
      <<"U+13A8", "U+AB78">>, <<"U+13A9", "U+AB79">>, <<"U+13AA", "U+AB7A">>,
      <<"U+13AB", "U+AB7B">>, <<"U+13AC", "U+AB7C">>, <<"U+13AD", "U+AB7D">>,
      <<"U+13AE", "U+AB7E">>, <<"U+13AF", "U+AB7F">>, <<"U+13B0", "U+AB80">>,
      <<"U+13B1", "U+AB81">>, <<"U+13B2", "U+AB82">>, <<"U+13B3", "U+AB83">>,
      <<"U+13B4", "U+AB84">>, <<"U+13B5", "U+AB85">>, <<"U+13B6", "U+AB86">>,
      <<"U+13B7", "U+AB87">>, <<"U+13B8", "U+AB88">>, <<"U+13B9", "U+AB89">>,
      <<"U+13BA", "U+AB8A">>, <<"U+13BB", "U+AB8B">>, <<"U+13BC", "U+AB8C">>,
      <<"U+13BD", "U+AB8D">>, <<"U+13BE", "U+AB8E">>, <<"U+13BF", "U+AB8F">>,
      <<"U+13C0", "U+AB90">>, <<"U+13C1", "U+AB91">>, <<"U+13C2", "U+AB92">>,
      <<"U+13C3", "U+AB93">>, <<"U+13C4", "U+AB94">>, <<"U+13C5", "U+AB95">>,
      <<"U+13C6", "U+AB96">>, <<"U+13C7", "U+AB97">>, <<"U+13C8", "U+AB98">>,
      <<"U+13C9", "U+AB99">>, <<"U+13CA", "U+AB9A">>, <<"U+13CB", "U+AB9B">>,
      <<"U+13CC", "U+AB9C">>, <<"U+13CD", "U+AB9D">>, <<"U+13CE", "U+AB9E">>,
      <<"U+13CF", "U+AB9F">>, <<"U+13D0", "U+ABA0">>, <<"U+13D1", "U+ABA1">>,
      <<"U+13D2", "U+ABA2">>, <<"U+13D3", "U+ABA3">>, <<"U+13D4", "U+ABA4">>,
      <<"U+13D5", "U+ABA5">>, <<"U+13D6", "U+ABA6">>, <<"U+13D7", "U+ABA7">>,
      <<"U+13D8", "U+ABA8">>, <<"U+13D9", "U+ABA9">>, <<"U+13DA", "U+ABAA">>,
      <<"U+13DB", "U+ABAB">>, <<"U+13DC", "U+ABAC">>, <<"U+13DD", "U+ABAD">>,
      <<"U+13DE", "U+ABAE">>, <<"U+13DF", "U+ABAF">>, <<"U+13E0", "U+ABB0">>,
      <<"U+13E1", "U+ABB1">>, <<"U+13E2", "U+ABB2">>, <<"U+13E3", "U+ABB3">>,
      <<"U+13E4", "U+ABB4">>, <<"U+13E5", "U+ABB5">>, <<"U+13E6", "U+ABB6">>,
      <<"U+13E7", "U+ABB7">>, <<"U+13E8", "U+ABB8">>, <<"U+13E9", "U+ABB9">>,
      <<"U+13EA", "U+ABBA">>, <<"U+13EB", "U+ABBB">>, <<"U+13EC", "U+ABBC">>,
      <<"U+13ED", "U+ABBD">>, <<"U+13EE", "U+ABBE">>, <<"U+13EF", "U+ABBF">>,
      <<"U+13F0", "U+13F8">>, <<"U+13F1", "U+13F9">>, <<"U+13F2", "U+13FA">>,
      <<"U+13F3", "U+13FB">>, <<"U+13F4", "U+13FC">>, <<"U+13F5", "U+13FD">>,
      <<"U+1C90", "U+10D0">>, <<"U+1C91", "U+10D1">>, <<"U+1C92", "U+10D2">>,
      <<"U+1C93", "U+10D3">>, <<"U+1C94", "U+10D4">>, <<"U+1C95", "U+10D5">>,
      <<"U+1C96", "U+10D6">>, <<"U+1C97", "U+10D7">>, <<"U+1C98", "U+10D8">>,
      <<"U+1C99", "U+10D9">>, <<"U+1C9A", "U+10DA">>, <<"U+1C9B", "U+10DB">>,
      <<"U+1C9C", "U+10DC">>, <<"U+1C9D", "U+10DD">>, <<"U+1C9E", "U+10DE">>,
      <<"U+1C9F", "U+10DF">>, <<"U+1CA0", "U+10E0">>, <<"U+1CA1", "U+10E1">>,
      <<"U+1CA2", "U+10E2">>, <<"U+1CA3", "U+10E3">>, <<"U+1CA4", "U+10E4">>,
      <<"U+1CA5", "U+10E5">>, <<"U+1CA6", "U+10E6">>, <<"U+1CA7", "U+10E7">>,
      <<"U+1CA8", "U+10E8">>, <<"U+1CA9", "U+10E9">>, <<"U+1CAA", "U+10EA">>,
      <<"U+1CAB", "U+10EB">>, <<"U+1CAC", "U+10EC">>, <<"U+1CAD", "U+10ED">>,
      <<"U+1CAE", "U+10EE">>, <<"U+1CAF", "U+10EF">>, <<"U+1CB0", "U+10F0">>,
      <<"U+1CB1", "U+10F1">>, <<"U+1CB2", "U+10F2">>, <<"U+1CB3", "U+10F3">>,
      <<"U+1CB4", "U+10F4">>, <<"U+1CB5", "U+10F5">>, <<"U+1CB6", "U+10F6">>,
      <<"U+1CB7", "U+10F7">>, <<"U+1CB8", "U+10F8">>, <<"U+1CB9", "U+10F9">>,
      <<"U+1CBA", "U+10FA">>, <<"U+1CBD", "U+10FD">>, <<"U+1CBE", "U+10FE">>,
      <<"U+1CBF", "U+10FF">>, <<"U+1E00", "U+1E01">>, <<"U+1E02", "U+1E03">>,
      <<"U+1E04", "U+1E05">>, <<"U+1E06", "U+1E07">>, <<"U+1E08", "U+1E09">>,
      <<"U+1E0A", "U+1E0B">>, <<"U+1E0C", "U+1E0D">>, <<"U+1E0E", "U+1E0F">>,
      <<"U+1E10", "U+1E11">>, <<"U+1E12", "U+1E13">>, <<"U+1E14", "U+1E15">>,
      <<"U+1E16", "U+1E17">>, <<"U+1E18", "U+1E19">>, <<"U+1E1A", "U+1E1B">>,
      <<"U+1E1C", "U+1E1D">>, <<"U+1E1E", "U+1E1F">>, <<"U+1E20", "U+1E21">>,
      <<"U+1E22", "U+1E23">>, <<"U+1E24", "U+1E25">>, <<"U+1E26", "U+1E27">>,
      <<"U+1E28", "U+1E29">>, <<"U+1E2A", "U+1E2B">>, <<"U+1E2C", "U+1E2D">>,
      <<"U+1E2E", "U+1E2F">>, <<"U+1E30", "U+1E31">>, <<"U+1E32", "U+1E33">>,
      <<"U+1E34", "U+1E35">>, <<"U+1E36", "U+1E37">>, <<"U+1E38", "U+1E39">>,
      <<"U+1E3A", "U+1E3B">>, <<"U+1E3C", "U+1E3D">>, <<"U+1E3E", "U+1E3F">>,
      <<"U+1E40", "U+1E41">>, <<"U+1E42", "U+1E43">>, <<"U+1E44", "U+1E45">>,
      <<"U+1E46", "U+1E47">>, <<"U+1E48", "U+1E49">>, <<"U+1E4A", "U+1E4B">>,
      <<"U+1E4C", "U+1E4D">>, <<"U+1E4E", "U+1E4F">>, <<"U+1E50", "U+1E51">>,
      <<"U+1E52", "U+1E53">>, <<"U+1E54", "U+1E55">>, <<"U+1E56", "U+1E57">>,
      <<"U+1E58", "U+1E59">>, <<"U+1E5A", "U+1E5B">>, <<"U+1E5C", "U+1E5D">>,
      <<"U+1E5E", "U+1E5F">>, <<"U+1E60", "U+1E61">>, <<"U+1E62", "U+1E63">>,
      <<"U+1E64", "U+1E65">>, <<"U+1E66", "U+1E67">>, <<"U+1E68", "U+1E69">>,
      <<"U+1E6A", "U+1E6B">>, <<"U+1E6C", "U+1E6D">>, <<"U+1E6E", "U+1E6F">>,
      <<"U+1E70", "U+1E71">>, <<"U+1E72", "U+1E73">>, <<"U+1E74", "U+1E75">>,
      <<"U+1E76", "U+1E77">>, <<"U+1E78", "U+1E79">>, <<"U+1E7A", "U+1E7B">>,
      <<"U+1E7C", "U+1E7D">>, <<"U+1E7E", "U+1E7F">>, <<"U+1E80", "U+1E81">>,
      <<"U+1E82", "U+1E83">>, <<"U+1E84", "U+1E85">>, <<"U+1E86", "U+1E87">>,
      <<"U+1E88", "U+1E89">>, <<"U+1E8A", "U+1E8B">>, <<"U+1E8C", "U+1E8D">>,
      <<"U+1E8E", "U+1E8F">>, <<"U+1E90", "U+1E91">>, <<"U+1E92", "U+1E93">>,
      <<"U+1E94", "U+1E95">>, <<"U+1E9E", "U+00DF">>, <<"U+1EA0", "U+1EA1">>,
      <<"U+1EA2", "U+1EA3">>, <<"U+1EA4", "U+1EA5">>, <<"U+1EA6", "U+1EA7">>,
      <<"U+1EA8", "U+1EA9">>, <<"U+1EAA", "U+1EAB">>, <<"U+1EAC", "U+1EAD">>,
      <<"U+1EAE", "U+1EAF">>, <<"U+1EB0", "U+1EB1">>, <<"U+1EB2", "U+1EB3">>,
      <<"U+1EB4", "U+1EB5">>, <<"U+1EB6", "U+1EB7">>, <<"U+1EB8", "U+1EB9">>,
      <<"U+1EBA", "U+1EBB">>, <<"U+1EBC", "U+1EBD">>, <<"U+1EBE", "U+1EBF">>,
      <<"U+1EC0", "U+1EC1">>, <<"U+1EC2", "U+1EC3">>, <<"U+1EC4", "U+1EC5">>,
      <<"U+1EC6", "U+1EC7">>, <<"U+1EC8", "U+1EC9">>, <<"U+1ECA", "U+1ECB">>,
      <<"U+1ECC", "U+1ECD">>, <<"U+1ECE", "U+1ECF">>, <<"U+1ED0", "U+1ED1">>,
      <<"U+1ED2", "U+1ED3">>, <<"U+1ED4", "U+1ED5">>, <<"U+1ED6", "U+1ED7">>,
      <<"U+1ED8", "U+1ED9">>, <<"U+1EDA", "U+1EDB">>, <<"U+1EDC", "U+1EDD">>,
      <<"U+1EDE", "U+1EDF">>, <<"U+1EE0", "U+1EE1">>, <<"U+1EE2", "U+1EE3">>,
      <<"U+1EE4", "U+1EE5">>, <<"U+1EE6", "U+1EE7">>, <<"U+1EE8", "U+1EE9">>,
      <<"U+1EEA", "U+1EEB">>, <<"U+1EEC", "U+1EED">>, <<"U+1EEE", "U+1EEF">>,
      <<"U+1EF0", "U+1EF1">>, <<"U+1EF2", "U+1EF3">>, <<"U+1EF4", "U+1EF5">>,
      <<"U+1EF6", "U+1EF7">>, <<"U+1EF8", "U+1EF9">>, <<"U+1EFA", "U+1EFB">>,
      <<"U+1EFC", "U+1EFD">>, <<"U+1EFE", "U+1EFF">>, <<"U+1F08", "U+1F00">>,
      <<"U+1F09", "U+1F01">>, <<"U+1F0A", "U+1F02">>, <<"U+1F0B", "U+1F03">>,
      <<"U+1F0C", "U+1F04">>, <<"U+1F0D", "U+1F05">>, <<"U+1F0E", "U+1F06">>,
      <<"U+1F0F", "U+1F07">>, <<"U+1F18", "U+1F10">>, <<"U+1F19", "U+1F11">>,
      <<"U+1F1A", "U+1F12">>, <<"U+1F1B", "U+1F13">>, <<"U+1F1C", "U+1F14">>,
      <<"U+1F1D", "U+1F15">>, <<"U+1F28", "U+1F20">>, <<"U+1F29", "U+1F21">>,
      <<"U+1F2A", "U+1F22">>, <<"U+1F2B", "U+1F23">>, <<"U+1F2C", "U+1F24">>,
      <<"U+1F2D", "U+1F25">>, <<"U+1F2E", "U+1F26">>, <<"U+1F2F", "U+1F27">>,
      <<"U+1F38", "U+1F30">>, <<"U+1F39", "U+1F31">>, <<"U+1F3A", "U+1F32">>,
      <<"U+1F3B", "U+1F33">>, <<"U+1F3C", "U+1F34">>, <<"U+1F3D", "U+1F35">>,
      <<"U+1F3E", "U+1F36">>, <<"U+1F3F", "U+1F37">>, <<"U+1F48", "U+1F40">>,
      <<"U+1F49", "U+1F41">>, <<"U+1F4A", "U+1F42">>, <<"U+1F4B", "U+1F43">>,
      <<"U+1F4C", "U+1F44">>, <<"U+1F4D", "U+1F45">>, <<"U+1F59", "U+1F51">>,
      <<"U+1F5B", "U+1F53">>, <<"U+1F5D", "U+1F55">>, <<"U+1F5F", "U+1F57">>,
      <<"U+1F68", "U+1F60">>, <<"U+1F69", "U+1F61">>, <<"U+1F6A", "U+1F62">>,
      <<"U+1F6B", "U+1F63">>, <<"U+1F6C", "U+1F64">>, <<"U+1F6D", "U+1F65">>,
      <<"U+1F6E", "U+1F66">>, <<"U+1F6F", "U+1F67">>, <<"U+1F88", "U+1F80">>,
      <<"U+1F89", "U+1F81">>, <<"U+1F8A", "U+1F82">>, <<"U+1F8B", "U+1F83">>,
      <<"U+1F8C", "U+1F84">>, <<"U+1F8D", "U+1F85">>, <<"U+1F8E", "U+1F86">>,
      <<"U+1F8F", "U+1F87">>, <<"U+1F98", "U+1F90">>, <<"U+1F99", "U+1F91">>,
      <<"U+1F9A", "U+1F92">>, <<"U+1F9B", "U+1F93">>, <<"U+1F9C", "U+1F94">>,
      <<"U+1F9D", "U+1F95">>, <<"U+1F9E", "U+1F96">>, <<"U+1F9F", "U+1F97">>,
      <<"U+1FA8", "U+1FA0">>, <<"U+1FA9", "U+1FA1">>, <<"U+1FAA", "U+1FA2">>,
      <<"U+1FAB", "U+1FA3">>, <<"U+1FAC", "U+1FA4">>, <<"U+1FAD", "U+1FA5">>,
      <<"U+1FAE", "U+1FA6">>, <<"U+1FAF", "U+1FA7">>, <<"U+1FB8", "U+1FB0">>,
      <<"U+1FB9", "U+1FB1">>, <<"U+1FBA", "U+1F70">>, <<"U+1FBB", "U+1F71">>,
      <<"U+1FBC", "U+1FB3">>, <<"U+1FC8", "U+1F72">>, <<"U+1FC9", "U+1F73">>,
      <<"U+1FCA", "U+1F74">>, <<"U+1FCB", "U+1F75">>, <<"U+1FCC", "U+1FC3">>,
      <<"U+1FD8", "U+1FD0">>, <<"U+1FD9", "U+1FD1">>, <<"U+1FDA", "U+1F76">>,
      <<"U+1FDB", "U+1F77">>, <<"U+1FE8", "U+1FE0">>, <<"U+1FE9", "U+1FE1">>,
      <<"U+1FEA", "U+1F7A">>, <<"U+1FEB", "U+1F7B">>, <<"U+1FEC", "U+1FE5">>,
      <<"U+1FF8", "U+1F78">>, <<"U+1FF9", "U+1F79">>, <<"U+1FFA", "U+1F7C">>,
      <<"U+1FFB", "U+1F7D">>, <<"U+1FFC", "U+1FF3">>, <<"U+2126", "U+03C9">>,
      <<"U+212A", "k">>, <<"U+212B", "U+00E5">>, <<"U+2132", "U+214E">>,
      <<"U+2160", "U+2170">>, <<"U+2161", "U+2171">>, <<"U+2162", "U+2172">>,
      <<"U+2163", "U+2173">>, <<"U+2164", "U+2174">>, <<"U+2165", "U+2175">>,
      <<"U+2166", "U+2176">>, <<"U+2167", "U+2177">>, <<"U+2168", "U+2178">>,
      <<"U+2169", "U+2179">>, <<"U+216A", "U+217A">>, <<"U+216B", "U+217B">>,
      <<"U+216C", "U+217C">>, <<"U+216D", "U+217D">>, <<"U+216E", "U+217E">>,
      <<"U+216F", "U+217F">>, <<"U+2183", "U+2184">>, <<"U+24B6", "U+24D0">>,
      <<"U+24B7", "U+24D1">>, <<"U+24B8", "U+24D2">>, <<"U+24B9", "U+24D3">>,
      <<"U+24BA", "U+24D4">>, <<"U+24BB", "U+24D5">>, <<"U+24BC", "U+24D6">>,
      <<"U+24BD", "U+24D7">>, <<"U+24BE", "U+24D8">>, <<"U+24BF", "U+24D9">>,
      <<"U+24C0", "U+24DA">>, <<"U+24C1", "U+24DB">>, <<"U+24C2", "U+24DC">>,
      <<"U+24C3", "U+24DD">>, <<"U+24C4", "U+24DE">>, <<"U+24C5", "U+24DF">>,
      <<"U+24C6", "U+24E0">>, <<"U+24C7", "U+24E1">>, <<"U+24C8", "U+24E2">>,
      <<"U+24C9", "U+24E3">>, <<"U+24CA", "U+24E4">>, <<"U+24CB", "U+24E5">>,
      <<"U+24CC", "U+24E6">>, <<"U+24CD", "U+24E7">>, <<"U+24CE", "U+24E8">>,
      <<"U+24CF", "U+24E9">>, <<"U+2C00", "U+2C30">>, <<"U+2C01", "U+2C31">>,
      <<"U+2C02", "U+2C32">>, <<"U+2C03", "U+2C33">>, <<"U+2C04", "U+2C34">>,
      <<"U+2C05", "U+2C35">>, <<"U+2C06", "U+2C36">>, <<"U+2C07", "U+2C37">>,
      <<"U+2C08", "U+2C38">>, <<"U+2C09", "U+2C39">>, <<"U+2C0A", "U+2C3A">>,
      <<"U+2C0B", "U+2C3B">>, <<"U+2C0C", "U+2C3C">>, <<"U+2C0D", "U+2C3D">>,
      <<"U+2C0E", "U+2C3E">>, <<"U+2C0F", "U+2C3F">>, <<"U+2C10", "U+2C40">>,
      <<"U+2C11", "U+2C41">>, <<"U+2C12", "U+2C42">>, <<"U+2C13", "U+2C43">>,
      <<"U+2C14", "U+2C44">>, <<"U+2C15", "U+2C45">>, <<"U+2C16", "U+2C46">>,
      <<"U+2C17", "U+2C47">>, <<"U+2C18", "U+2C48">>, <<"U+2C19", "U+2C49">>,
      <<"U+2C1A", "U+2C4A">>, <<"U+2C1B", "U+2C4B">>, <<"U+2C1C", "U+2C4C">>,
      <<"U+2C1D", "U+2C4D">>, <<"U+2C1E", "U+2C4E">>, <<"U+2C1F", "U+2C4F">>,
      <<"U+2C20", "U+2C50">>, <<"U+2C21", "U+2C51">>, <<"U+2C22", "U+2C52">>,
      <<"U+2C23", "U+2C53">>, <<"U+2C24", "U+2C54">>, <<"U+2C25", "U+2C55">>,
      <<"U+2C26", "U+2C56">>, <<"U+2C27", "U+2C57">>, <<"U+2C28", "U+2C58">>,
      <<"U+2C29", "U+2C59">>, <<"U+2C2A", "U+2C5A">>, <<"U+2C2B", "U+2C5B">>,
      <<"U+2C2C", "U+2C5C">>, <<"U+2C2D", "U+2C5D">>, <<"U+2C2E", "U+2C5E">>,
      <<"U+2C2F", "U+2C5F">>, <<"U+2C60", "U+2C61">>, <<"U+2C62", "U+026B">>,
      <<"U+2C63", "U+1D7D">>, <<"U+2C64", "U+027D">>, <<"U+2C67", "U+2C68">>,
      <<"U+2C69", "U+2C6A">>, <<"U+2C6B", "U+2C6C">>, <<"U+2C6D", "U+0251">>,
      <<"U+2C6E", "U+0271">>, <<"U+2C6F", "U+0250">>, <<"U+2C70", "U+0252">>,
      <<"U+2C72", "U+2C73">>, <<"U+2C75", "U+2C76">>, <<"U+2C7E", "U+023F">>,
      <<"U+2C7F", "U+0240">>, <<"U+2C80", "U+2C81">>, <<"U+2C82", "U+2C83">>,
      <<"U+2C84", "U+2C85">>, <<"U+2C86", "U+2C87">>, <<"U+2C88", "U+2C89">>,
      <<"U+2C8A", "U+2C8B">>, <<"U+2C8C", "U+2C8D">>, <<"U+2C8E", "U+2C8F">>,
      <<"U+2C90", "U+2C91">>, <<"U+2C92", "U+2C93">>, <<"U+2C94", "U+2C95">>,
      <<"U+2C96", "U+2C97">>, <<"U+2C98", "U+2C99">>, <<"U+2C9A", "U+2C9B">>,
      <<"U+2C9C", "U+2C9D">>, <<"U+2C9E", "U+2C9F">>, <<"U+2CA0", "U+2CA1">>,
      <<"U+2CA2", "U+2CA3">>, <<"U+2CA4", "U+2CA5">>, <<"U+2CA6", "U+2CA7">>,
      <<"U+2CA8", "U+2CA9">>, <<"U+2CAA", "U+2CAB">>, <<"U+2CAC", "U+2CAD">>,
      <<"U+2CAE", "U+2CAF">>, <<"U+2CB0", "U+2CB1">>, <<"U+2CB2", "U+2CB3">>,
      <<"U+2CB4", "U+2CB5">>, <<"U+2CB6", "U+2CB7">>, <<"U+2CB8", "U+2CB9">>,
      <<"U+2CBA", "U+2CBB">>, <<"U+2CBC", "U+2CBD">>, <<"U+2CBE", "U+2CBF">>,
      <<"U+2CC0", "U+2CC1">>, <<"U+2CC2", "U+2CC3">>, <<"U+2CC4", "U+2CC5">>,
      <<"U+2CC6", "U+2CC7">>, <<"U+2CC8", "U+2CC9">>, <<"U+2CCA", "U+2CCB">>,
      <<"U+2CCC", "U+2CCD">>, <<"U+2CCE", "U+2CCF">>, <<"U+2CD0", "U+2CD1">>,
      <<"U+2CD2", "U+2CD3">>, <<"U+2CD4", "U+2CD5">>, <<"U+2CD6", "U+2CD7">>,
      <<"U+2CD8", "U+2CD9">>, <<"U+2CDA", "U+2CDB">>, <<"U+2CDC", "U+2CDD">>,
      <<"U+2CDE", "U+2CDF">>, <<"U+2CE0", "U+2CE1">>, <<"U+2CE2", "U+2CE3">>,
      <<"U+2CEB", "U+2CEC">>, <<"U+2CED", "U+2CEE">>, <<"U+2CF2", "U+2CF3">>,
      <<"U+A640", "U+A641">>, <<"U+A642", "U+A643">>, <<"U+A644", "U+A645">>,
      <<"U+A646", "U+A647">>, <<"U+A648", "U+A649">>, <<"U+A64A", "U+A64B">>,
      <<"U+A64C", "U+A64D">>, <<"U+A64E", "U+A64F">>, <<"U+A650", "U+A651">>,
      <<"U+A652", "U+A653">>, <<"U+A654", "U+A655">>, <<"U+A656", "U+A657">>,
      <<"U+A658", "U+A659">>, <<"U+A65A", "U+A65B">>, <<"U+A65C", "U+A65D">>,
      <<"U+A65E", "U+A65F">>, <<"U+A660", "U+A661">>, <<"U+A662", "U+A663">>,
      <<"U+A664", "U+A665">>, <<"U+A666", "U+A667">>, <<"U+A668", "U+A669">>,
      <<"U+A66A", "U+A66B">>, <<"U+A66C", "U+A66D">>, <<"U+A680", "U+A681">>,
      <<"U+A682", "U+A683">>, <<"U+A684", "U+A685">>, <<"U+A686", "U+A687">>,
      <<"U+A688", "U+A689">>, <<"U+A68A", "U+A68B">>, <<"U+A68C", "U+A68D">>,
      <<"U+A68E", "U+A68F">>, <<"U+A690", "U+A691">>, <<"U+A692", "U+A693">>,
      <<"U+A694", "U+A695">>, <<"U+A696", "U+A697">>, <<"U+A698", "U+A699">>,
      <<"U+A69A", "U+A69B">>, <<"U+A722", "U+A723">>, <<"U+A724", "U+A725">>,
      <<"U+A726", "U+A727">>, <<"U+A728", "U+A729">>, <<"U+A72A", "U+A72B">>,
      <<"U+A72C", "U+A72D">>, <<"U+A72E", "U+A72F">>, <<"U+A732", "U+A733">>,
      <<"U+A734", "U+A735">>, <<"U+A736", "U+A737">>, <<"U+A738", "U+A739">>,
      <<"U+A73A", "U+A73B">>, <<"U+A73C", "U+A73D">>, <<"U+A73E", "U+A73F">>,
      <<"U+A740", "U+A741">>, <<"U+A742", "U+A743">>, <<"U+A744", "U+A745">>,
      <<"U+A746", "U+A747">>, <<"U+A748", "U+A749">>, <<"U+A74A", "U+A74B">>,
      <<"U+A74C", "U+A74D">>, <<"U+A74E", "U+A74F">>, <<"U+A750", "U+A751">>,
      <<"U+A752", "U+A753">>, <<"U+A754", "U+A755">>, <<"U+A756", "U+A757">>,
      <<"U+A758", "U+A759">>, <<"U+A75A", "U+A75B">>, <<"U+A75C", "U+A75D">>,
      <<"U+A75E", "U+A75F">>, <<"U+A760", "U+A761">>, <<"U+A762", "U+A763">>,
      <<"U+A764", "U+A765">>, <<"U+A766", "U+A767">>, <<"U+A768", "U+A769">>,
      <<"U+A76A", "U+A76B">>, <<"U+A76C", "U+A76D">>, <<"U+A76E", "U+A76F">>,
      <<"U+A779", "U+A77A">>, <<"U+A77B", "U+A77C">>, <<"U+A77D", "U+1D79">>,
      <<"U+A77E", "U+A77F">>, <<"U+A780", "U+A781">>, <<"U+A782", "U+A783">>,
      <<"U+A784", "U+A785">>, <<"U+A786", "U+A787">>, <<"U+A78B", "U+A78C">>,
      <<"U+A78D", "U+0265">>, <<"U+A790", "U+A791">>, <<"U+A792", "U+A793">>,
      <<"U+A796", "U+A797">>, <<"U+A798", "U+A799">>, <<"U+A79A", "U+A79B">>,
      <<"U+A79C", "U+A79D">>, <<"U+A79E", "U+A79F">>, <<"U+A7A0", "U+A7A1">>,
      <<"U+A7A2", "U+A7A3">>, <<"U+A7A4", "U+A7A5">>, <<"U+A7A6", "U+A7A7">>,
      <<"U+A7A8", "U+A7A9">>, <<"U+A7AA", "U+0266">>, <<"U+A7AB", "U+025C">>,
      <<"U+A7AC", "U+0261">>, <<"U+A7AD", "U+026C">>, <<"U+A7AE", "U+026A">>,
      <<"U+A7B0", "U+029E">>, <<"U+A7B1", "U+0287">>, <<"U+A7B2", "U+029D">>,
      <<"U+A7B3", "U+AB53">>, <<"U+A7B4", "U+A7B5">>, <<"U+A7B6", "U+A7B7">>,
      <<"U+A7B8", "U+A7B9">>, <<"U+A7BA", "U+A7BB">>, <<"U+A7BC", "U+A7BD">>,
      <<"U+A7BE", "U+A7BF">>, <<"U+A7C0", "U+A7C1">>, <<"U+A7C2", "U+A7C3">>,
      <<"U+A7C4", "U+A794">>, <<"U+A7C5", "U+0282">>, <<"U+A7C6", "U+1D8E">>,
      <<"U+A7C7", "U+A7C8">>, <<"U+A7C9", "U+A7CA">>, <<"U+A7D0", "U+A7D1">>,
      <<"U+A7D6", "U+A7D7">>, <<"U+A7D8", "U+A7D9">>, <<"U+A7F5", "U+A7F6">>,
      <<"U+FF21", "U+FF41">>, <<"U+FF22", "U+FF42">>, <<"U+FF23", "U+FF43">>,
      <<"U+FF24", "U+FF44">>, <<"U+FF25", "U+FF45">>, <<"U+FF26", "U+FF46">>,
      <<"U+FF27", "U+FF47">>, <<"U+FF28", "U+FF48">>, <<"U+FF29", "U+FF49">>,
      <<"U+FF2A", "U+FF4A">>, <<"U+FF2B", "U+FF4B">>, <<"U+FF2C", "U+FF4C">>,
      <<"U+FF2D", "U+FF4D">>, <<"U+FF2E", "U+FF4E">>, <<"U+FF2F", "U+FF4F">>,
      <<"U+FF30", "U+FF50">>, <<"U+FF31", "U+FF51">>, <<"U+FF32", "U+FF52">>,
      <<"U+FF33", "U+FF53">>, <<"U+FF34", "U+FF54">>, <<"U+FF35", "U+FF55">>,
      <<"U+FF36", "U+FF56">>, <<"U+FF37", "U+FF57">>, <<"U+FF38", "U+FF58">>,
      <<"U+FF39", "U+FF59">>, <<"U+FF3A", "U+FF5A">>,
      <<"U+10400", "U+10428">>, <<"U+10401", "U+10429">>,
      <<"U+10402", "U+1042A">>, <<"U+10403", "U+1042B">>,
      <<"U+10404", "U+1042C">>, <<"U+10405", "U+1042D">>,
      <<"U+10406", "U+1042E">>, <<"U+10407", "U+1042F">>,
      <<"U+10408", "U+10430">>, <<"U+10409", "U+10431">>,
      <<"U+1040A", "U+10432">>, <<"U+1040B", "U+10433">>,
      <<"U+1040C", "U+10434">>, <<"U+1040D", "U+10435">>,
      <<"U+1040E", "U+10436">>, <<"U+1040F", "U+10437">>,
      <<"U+10410", "U+10438">>, <<"U+10411", "U+10439">>,
      <<"U+10412", "U+1043A">>, <<"U+10413", "U+1043B">>,
      <<"U+10414", "U+1043C">>, <<"U+10415", "U+1043D">>,
      <<"U+10416", "U+1043E">>, <<"U+10417", "U+1043F">>,
      <<"U+10418", "U+10440">>, <<"U+10419", "U+10441">>,
      <<"U+1041A", "U+10442">>, <<"U+1041B", "U+10443">>,
      <<"U+1041C", "U+10444">>, <<"U+1041D", "U+10445">>,
      <<"U+1041E", "U+10446">>, <<"U+1041F", "U+10447">>,
      <<"U+10420", "U+10448">>, <<"U+10421", "U+10449">>,
      <<"U+10422", "U+1044A">>, <<"U+10423", "U+1044B">>,
      <<"U+10424", "U+1044C">>, <<"U+10425", "U+1044D">>,
      <<"U+10426", "U+1044E">>, <<"U+10427", "U+1044F">>,
      <<"U+104B0", "U+104D8">>, <<"U+104B1", "U+104D9">>,
      <<"U+104B2", "U+104DA">>, <<"U+104B3", "U+104DB">>,
      <<"U+104B4", "U+104DC">>, <<"U+104B5", "U+104DD">>,
      <<"U+104B6", "U+104DE">>, <<"U+104B7", "U+104DF">>,
      <<"U+104B8", "U+104E0">>, <<"U+104B9", "U+104E1">>,
      <<"U+104BA", "U+104E2">>, <<"U+104BB", "U+104E3">>,
      <<"U+104BC", "U+104E4">>, <<"U+104BD", "U+104E5">>,
      <<"U+104BE", "U+104E6">>, <<"U+104BF", "U+104E7">>,
      <<"U+104C0", "U+104E8">>, <<"U+104C1", "U+104E9">>,
      <<"U+104C2", "U+104EA">>, <<"U+104C3", "U+104EB">>,
      <<"U+104C4", "U+104EC">>, <<"U+104C5", "U+104ED">>,
      <<"U+104C6", "U+104EE">>, <<"U+104C7", "U+104EF">>,
      <<"U+104C8", "U+104F0">>, <<"U+104C9", "U+104F1">>,
      <<"U+104CA", "U+104F2">>, <<"U+104CB", "U+104F3">>,
      <<"U+104CC", "U+104F4">>, <<"U+104CD", "U+104F5">>,
      <<"U+104CE", "U+104F6">>, <<"U+104CF", "U+104F7">>,
      <<"U+104D0", "U+104F8">>, <<"U+104D1", "U+104F9">>,
      <<"U+104D2", "U+104FA">>, <<"U+104D3", "U+104FB">>,
      <<"U+10570", "U+10597">>, <<"U+10571", "U+10598">>,
      <<"U+10572", "U+10599">>, <<"U+10573", "U+1059A">>,
      <<"U+10574", "U+1059B">>, <<"U+10575", "U+1059C">>,
      <<"U+10576", "U+1059D">>, <<"U+10577", "U+1059E">>,
      <<"U+10578", "U+1059F">>, <<"U+10579", "U+105A0">>,
      <<"U+1057A", "U+105A1">>, <<"U+1057C", "U+105A3">>,
      <<"U+1057D", "U+105A4">>, <<"U+1057E", "U+105A5">>,
      <<"U+1057F", "U+105A6">>, <<"U+10580", "U+105A7">>,
      <<"U+10581", "U+105A8">>, <<"U+10582", "U+105A9">>,
      <<"U+10583", "U+105AA">>, <<"U+10584", "U+105AB">>,
      <<"U+10585", "U+105AC">>, <<"U+10586", "U+105AD">>,
      <<"U+10587", "U+105AE">>, <<"U+10588", "U+105AF">>,
      <<"U+10589", "U+105B0">>, <<"U+1058A", "U+105B1">>,
      <<"U+1058C", "U+105B3">>, <<"U+1058D", "U+105B4">>,
      <<"U+1058E", "U+105B5">>, <<"U+1058F", "U+105B6">>,
      <<"U+10590", "U+105B7">>, <<"U+10591", "U+105B8">>,
      <<"U+10592", "U+105B9">>, <<"U+10594", "U+105BB">>,
      <<"U+10595", "U+105BC">>, <<"U+10C80", "U+10CC0">>,
      <<"U+10C81", "U+10CC1">>, <<"U+10C82", "U+10CC2">>,
      <<"U+10C83", "U+10CC3">>, <<"U+10C84", "U+10CC4">>,
      <<"U+10C85", "U+10CC5">>, <<"U+10C86", "U+10CC6">>,
      <<"U+10C87", "U+10CC7">>, <<"U+10C88", "U+10CC8">>,
      <<"U+10C89", "U+10CC9">>, <<"U+10C8A", "U+10CCA">>,
      <<"U+10C8B", "U+10CCB">>, <<"U+10C8C", "U+10CCC">>,
      <<"U+10C8D", "U+10CCD">>, <<"U+10C8E", "U+10CCE">>,
      <<"U+10C8F", "U+10CCF">>, <<"U+10C90", "U+10CD0">>,
      <<"U+10C91", "U+10CD1">>, <<"U+10C92", "U+10CD2">>,
      <<"U+10C93", "U+10CD3">>, <<"U+10C94", "U+10CD4">>,
      <<"U+10C95", "U+10CD5">>, <<"U+10C96", "U+10CD6">>,
      <<"U+10C97", "U+10CD7">>, <<"U+10C98", "U+10CD8">>,
      <<"U+10C99", "U+10CD9">>, <<"U+10C9A", "U+10CDA">>,
      <<"U+10C9B", "U+10CDB">>, <<"U+10C9C", "U+10CDC">>,
      <<"U+10C9D", "U+10CDD">>, <<"U+10C9E", "U+10CDE">>,
      <<"U+10C9F", "U+10CDF">>, <<"U+10CA0", "U+10CE0">>,
      <<"U+10CA1", "U+10CE1">>, <<"U+10CA2", "U+10CE2">>,
      <<"U+10CA3", "U+10CE3">>, <<"U+10CA4", "U+10CE4">>,
      <<"U+10CA5", "U+10CE5">>, <<"U+10CA6", "U+10CE6">>,
      <<"U+10CA7", "U+10CE7">>, <<"U+10CA8", "U+10CE8">>,
      <<"U+10CA9", "U+10CE9">>, <<"U+10CAA", "U+10CEA">>,
      <<"U+10CAB", "U+10CEB">>, <<"U+10CAC", "U+10CEC">>,
      <<"U+10CAD", "U+10CED">>, <<"U+10CAE", "U+10CEE">>,
      <<"U+10CAF", "U+10CEF">>, <<"U+10CB0", "U+10CF0">>,
      <<"U+10CB1", "U+10CF1">>, <<"U+10CB2", "U+10CF2">>,
      <<"U+118A0", "U+118C0">>, <<"U+118A1", "U+118C1">>,
      <<"U+118A2", "U+118C2">>, <<"U+118A3", "U+118C3">>,
      <<"U+118A4", "U+118C4">>, <<"U+118A5", "U+118C5">>,
      <<"U+118A6", "U+118C6">>, <<"U+118A7", "U+118C7">>,
      <<"U+118A8", "U+118C8">>, <<"U+118A9", "U+118C9">>,
      <<"U+118AA", "U+118CA">>, <<"U+118AB", "U+118CB">>,
      <<"U+118AC", "U+118CC">>, <<"U+118AD", "U+118CD">>,
      <<"U+118AE", "U+118CE">>, <<"U+118AF", "U+118CF">>,
      <<"U+118B0", "U+118D0">>, <<"U+118B1", "U+118D1">>,
      <<"U+118B2", "U+118D2">>, <<"U+118B3", "U+118D3">>,
      <<"U+118B4", "U+118D4">>, <<"U+118B5", "U+118D5">>,
      <<"U+118B6", "U+118D6">>, <<"U+118B7", "U+118D7">>,
      <<"U+118B8", "U+118D8">>, <<"U+118B9", "U+118D9">>,
      <<"U+118BA", "U+118DA">>, <<"U+118BB", "U+118DB">>,
      <<"U+118BC", "U+118DC">>, <<"U+118BD", "U+118DD">>,
      <<"U+118BE", "U+118DE">>, <<"U+118BF", "U+118DF">>,
      <<"U+16E40", "U+16E60">>, <<"U+16E41", "U+16E61">>,
      <<"U+16E42", "U+16E62">>, <<"U+16E43", "U+16E63">>,
      <<"U+16E44", "U+16E64">>, <<"U+16E45", "U+16E65">>,
      <<"U+16E46", "U+16E66">>, <<"U+16E47", "U+16E67">>,
      <<"U+16E48", "U+16E68">>, <<"U+16E49", "U+16E69">>,
      <<"U+16E4A", "U+16E6A">>, <<"U+16E4B", "U+16E6B">>,
      <<"U+16E4C", "U+16E6C">>, <<"U+16E4D", "U+16E6D">>,
      <<"U+16E4E", "U+16E6E">>, <<"U+16E4F", "U+16E6F">>,
      <<"U+16E50", "U+16E70">>, <<"U+16E51", "U+16E71">>,
      <<"U+16E52", "U+16E72">>, <<"U+16E53", "U+16E73">>,
      <<"U+16E54", "U+16E74">>, <<"U+16E55", "U+16E75">>,
      <<"U+16E56", "U+16E76">>, <<"U+16E57", "U+16E77">>,
      <<"U+16E58", "U+16E78">>, <<"U+16E59", "U+16E79">>,
      <<"U+16E5A", "U+16E7A">>, <<"U+16E5B", "U+16E7B">>,
      <<"U+16E5C", "U+16E7C">>, <<"U+16E5D", "U+16E7D">>,
      <<"U+16E5E", "U+16E7E">>, <<"U+16E5F", "U+16E7F">>,
      <<"U+1E900", "U+1E922">>, <<"U+1E901", "U+1E923">>,
      <<"U+1E902", "U+1E924">>, <<"U+1E903", "U+1E925">>,
      <<"U+1E904", "U+1E926">>, <<"U+1E905", "U+1E927">>,
      <<"U+1E906", "U+1E928">>, <<"U+1E907", "U+1E929">>,
      <<"U+1E908", "U+1E92A">>, <<"U+1E909", "U+1E92B">>,
      <<"U+1E90A", "U+1E92C">>, <<"U+1E90B", "U+1E92D">>,
      <<"U+1E90C", "U+1E92E">>, <<"U+1E90D", "U+1E92F">>,
      <<"U+1E90E", "U+1E930">>, <<"U+1E90F", "U+1E931">>,
      <<"U+1E910", "U+1E932">>, <<"U+1E911", "U+1E933">>,
      <<"U+1E912", "U+1E934">>, <<"U+1E913", "U+1E935">>,
      <<"U+1E914", "U+1E936">>, <<"U+1E915", "U+1E937">>,
      <<"U+1E916", "U+1E938">>, <<"U+1E917", "U+1E939">>,
      <<"U+1E918", "U+1E93A">>, <<"U+1E919", "U+1E93B">>,
      <<"U+1E91A", "U+1E93C">>, <<"U+1E91B", "U+1E93D">>,
      <<"U+1E91C", "U+1E93E">>, <<"U+1E91D", "U+1E93F">>,
      <<"U+1E91E", "U+1E940">>, <<"U+1E91F", "U+1E941">>,
      <<"U+1E920", "U+1E942">>, <<"U+1E921", "U+1E943">>>>

LowerCase ==
    [c \in {CaseRanges[i][1] : i \in 1..Len(CaseRanges)} |->
        CaseRanges[CHOOSE i \in 1..Len(CaseRanges) : CaseRanges[i][1] = c][2]]

(* A character without a lower-case form is kept.                          *)
LowerOf(c) == IF c \in DOMAIN LowerCase THEN LowerCase[c] ELSE c

ToLower(s) == [i \in 1..Len(s) |-> LowerOf(s[i])]

RECURSIVE Rep(_, _)
Rep(c, n) == IF n = 0 THEN <<>> ELSE <<c>> \o Rep(c, n - 1)

---------------------------------------------------------------------------
(* The four subcommands.                                                   *)

Pruning == "pruning-cronjob-error-sre"
Budget == "cluster-monitoring-error-budget-burn-sre"
Dynatrace == "dynatrace-monitoring-stack-down-sre"
Provisioning == "cluster-provisioning-failure"

Subcommands == {Pruning, Budget, Dynatrace, Provisioning}

(* A file of the bundle: NN-name[-arg].ext; num is "" when the name has no *)
(* numeric prefix.                                                         *)
File(num, name, arg, ext) == [num |-> num, name |-> name, arg |-> arg, ext |-> ext]
NoFile == [num |-> "", name |-> "", arg |-> "", ext |-> ""]

BaseName(file) ==
    (IF file.num # "" THEN file.num \o "-" ELSE "") \o file.name \o
    (IF file.arg # "" THEN "-" \o file.arg ELSE "") \o "." \o file.ext

(* What a collector does, one entry per call it makes.                     *)
(*   exec  runOCCommand: oc <verb> ... > file (commandExecutor)            *)
(*   run   runOCCommandWithOutput: oc <verb> ... (commandRunner)           *)
(*   write o.writeFile(file, ...)                                          *)
(*   ocm   exec.Command("ocm" ...) or bash -c "ocm get ..."                *)
(*   dt    a Dynatrace storage query, written to file                      *)
Exec(verb, file) == [kind |-> "exec", verb |-> verb, file |-> file]
Run(verb) == [kind |-> "run", verb |-> verb, file |-> NoFile]
Write(file) == [kind |-> "write", verb |-> <<>>, file |-> file]
Ocm(file) == [kind |-> "ocm", verb |-> <<>>, file |-> file]
Dt(file) == [kind |-> "dt", verb |-> <<>>, file |-> file]

Get == <<"get">>
Describe == <<"describe">>
Logs == <<"logs">>
AdmTop == <<"adm", "top">>
ClusterInfo == <<"cluster-info">>

(* Pod and job names as the JSON listing gives them, by position.          *)
PodName(i) == IF i = 1 THEN "pod-a" ELSE IF i = 2 THEN "pod-b" ELSE "pod-c"
JobName(i) == IF i = 1 THEN "job-a" ELSE "job-b"

Phases == {"Running", "Succeeded", "Pending"}

(* The phases of the pods in a `get pod -o json` answer; <<>> also stands  *)
(* for an answer json.Unmarshal rejects (no item is seen).                 *)
PodLists == UNION {[1..n -> Phases] : n \in 0..MaxPods}
JobCounts == 0..MaxJobs

failingPods(pods) ==
    SelectSeq([i \in 1..Len(pods) |-> [name |-> PodName(i), phase |-> pods[i]]],
              LAMBDA p : p.phase # "Succeeded" /\ p.phase # "Running")

allPods(pods) == [i \in 1..Len(pods) |-> [name |-> PodName(i), phase |-> pods[i]]]

RECURSIVE Flatten(_)
Flatten(ss) == IF ss = <<>> THEN <<>> ELSE Head(ss) \o Flatten(Tail(ss))


---------------------------------------------------------------------------
(* Collectors.  Each takes the options and what the environment answers    *)
(* (env.pods, env.jobs, env.dt, env.fail: the indices of its calls that    *)
(* fail, env.left: those of the failing calls whose file is on disk all    *)
(* the same) and yields the calls it makes, the files it leaves behind and *)
(* what it returns.                                                        *)

Indices(ops) == 1..Len(ops)

(* Files on disk after the calls.  A call that succeeds leaves its file.   *)
(* A call that fails may or may not: the command executor opens its output *)
(* file (O_CREATE) before oc runs, so the file is there when oc fails and  *)
(* missing when the open itself fails; os.WriteFile fails before creating  *)
(* the file or after it, leaving it empty or partial.  The file of a       *)
(* failed Dynatrace download is removed.                                   *)
Written(ops, fail, left) ==
    {ops[i].file : i \in {j \in Indices(ops) :
        /\ ops[j].kind \in {"exec", "write", "ocm", "dt"}
        /\ j \notin fail \/ (j \in left /\ ops[j].kind # "dt")}}

(* The failing calls that leave their file: each failing call leaves it or *)
(* not on its own (oc failed after its output file was opened, or the open *)
(* itself failed; a write was refused after or before the file was         *)
(* created), so any subset of them.                                        *)
LeftSets(ops, fail) ==
    SUBSET {i \in fail \cap Indices(ops) : ops[i].kind \in {"exec", "write", "ocm"}}

Collected(ops, fail, left, ret) ==
    [ops |-> ops, written |-> Written(ops, fail, left), ret |-> ret]

\* ---- pruning-cronjob-error-sre

(* Faulty variant: collectJobs hands a failed invocation back to run().    *)
collectJobs_returningError(opts, env) ==
    Collected(<<Exec(Get, File("01", "jobs", "", "txt")),
                Exec(Get, File("01", "jobs", "", "yaml"))>>, env.fail, env.left,
              IF env.fail = {} THEN "nil" ELSE "error")

pruningCronjob_collectJobs(opts, env) ==
    Collected(<<Exec(Get, File("01", "jobs", "", "txt")),
                Exec(Get, File("01", "jobs", "", "yaml"))>>, env.fail, env.left, "nil")

pruningCronjob_podsToProcess(pods) ==
    IF Len(failingPods(pods)) = 0 THEN allPods(pods) ELSE failingPods(pods)

pruningCronjob_collectPods(opts, env) ==
    LET todo == pruningCronjob_podsToProcess(env.pods)
        perPod == Flatten([i \in 1..Len(todo) |->
                    <<Exec(Logs, File("03", "pod-logs", todo[i].name, "txt")),
                      Exec(Describe, File("04", "pod-describe", todo[i].name, "txt"))>>])
        perJob == [i \in 1..env.jobs |->
                    Exec(Describe, File("12", "job-describe", JobName(i), "txt"))]
    IN  Collected(<<Exec(Get, File("02", "pods", "", "txt")),
                    Exec(Get, File("02", "pods", "", "yaml")),
                    Run(Get)>> \o perPod \o <<Run(Get)>> \o perJob,
                  env.fail, env.left, "nil")

(* Faulty variant: collectEvents clears the events it has listed.           *)
collectEvents_deleting(opts, env) ==
    Collected(<<Exec(Get, File("05", "events", "", "txt")), Run(<<"delete">>)>>,
              env.fail, env.left, "nil")

pruningCronjob_collectEvents(opts, env) ==
    Collected(<<Exec(Get, File("05", "events", "", "txt"))>>, env.fail, env.left, "nil")

pruningCronjob_collectNetworkInfo(opts, env) ==
    Collected(<<Exec(Get, File("06", "network-config", "", "json"))>>, env.fail, env.left, "nil")

pruningCronjob_collectNodeExporterInfo(opts, env) ==
    Collected(<<Run(AdmTop), Write(File("07", "node-exporter-cpu", "", "txt")),
                Run(Get), Write(File("07", "node-exporter-pods", "", "txt"))>>,
              env.fail, env.left, "nil")

pruningCronjob_collectImageRegistryInfo(opts, env) ==
    Collected(<<Exec(Get, File("08", "image-registry-pods", "", "txt")),
                Run(Logs), Write(File("09", "registry-operator-forbidden", "", "txt")),
                Exec(Logs, File("09", "registry-operator-logs", "", "txt"))>>,
              env.fail, env.left, "nil")

pruningCronjob_collectResourceQuotas(opts, env) ==
    Collected(<<Exec(Get, File("10", "resource-quotas-monitoring", "", "txt")),
                Exec(Get, File("10", "resource-quotas-pruning", "", "txt"))>>,
              env.fail, env.left, "nil")

pruningCronjob_collectOVNInfo(opts, env) ==
    Collected(<<Exec(Get, File("11", "ovn-master-pods", "", "txt"))>>, env.fail, env.left, "nil")

pruningCronjob_collectCronJobInfo(opts, env) ==
    Collected(<<Exec(Get, File("13", "cronjobs", "", "txt")),
                Exec(Get, File("13", "cronjobs", "", "yaml"))>>, env.fail, env.left, "nil")

pruningCronjob_collectSeccompErrors(opts, env) ==
    Collected(<<Run(Get), Write(File("14", "seccomp-errors", "", "txt"))>>,
              env.fail, env.left, "nil")

pruningCronjob_collectNodeInfo(opts, env) ==
    Collected(<<Exec(Get, File("15", "pod-nodes", "", "txt"))>>, env.fail, env.left, "nil")

pruningCronjob_collectJobHistory(opts, env) ==
    Collected(<<Run(Get), Write(File("16", "job-history", "", "txt"))>>,
              env.fail, env.left, "nil")

pruningCronjob_collectClusterVersion(opts, env) ==
    Collected(<<Exec(Get, File("17", "cluster-version", "", "yaml"))>>, env.fail, env.left, "nil")

\* ---- cluster-monitoring-error-budget-burn-sre

errorBudgetBurn_collectMonitoringOperator(opts, env) ==
    Collected(<<Exec(Get, File("01", "monitoring-clusteroperator", "", "yaml")),
                Exec(Get, File("01", "monitoring-clusteroperator", "", "txt"))>>,
              env.fail, env.left, "nil")

errorBudgetBurn_collectMonitoringPods(opts, env) ==
    Collected(<<Exec(Get, File("02", "monitoring-pods", "", "txt")),
                Exec(Get, File("02", "monitoring-pods", "", "yaml"))>>, env.fail, env.left, "nil")

errorBudgetBurn_collectMonitoringEvents(opts, env) ==
    Collected(<<Exec(Get, File("03", "monitoring-events", "", "txt"))>>, env.fail, env.left, "nil")

errorBudgetBurn_collectPrometheusCRDs(opts, env) ==
    Collected(<<Exec(Get, File("04", "prometheus-crds", "", "txt")),
                Exec(Get, File("04", "prometheus-crds", "", "yaml"))>>, env.fail, env.left, "nil")

errorBudgetBurn_collectMonitoringOperatorLogs(opts, env) ==
    Collected(<<Exec(Logs, File("05", "cmo-logs", "", "txt")),
                Exec(Logs, File("05", "cmo-logs-all-containers", "", "txt"))>>,
              env.fail, env.left, "nil")

errorBudgetBurn_collectResourceQuotas(opts, env) ==
    Collected(<<Exec(Get, File("06", "resource-quotas", "", "txt"))>>, env.fail, env.left, "nil")

errorBudgetBurn_collectClusterVersion(opts, env) ==
    Collected(<<Exec(Get, File("07", "cluster-version", "", "yaml"))>>, env.fail, env.left, "nil")

\* ---- dynatrace-monitoring-stack-down-sre

Components == <<"operator", "webhook", "otel", "activegate", "oneagent">>

dynatrace_collectDeployments(opts, env) ==
    Collected(<<Exec(Get, File("01", "deployments", "", "txt")),
                Exec(Get, File("01", "deployments", "", "yaml"))>>, env.fail, env.left, "nil")

dynatrace_collectStatefulSets(opts, env) ==
    Collected(<<Exec(Get, File("02", "statefulsets-activegate", "", "txt")),
                Exec(Get, File("02", "statefulsets-activegate", "", "yaml"))>>,
              env.fail, env.left, "nil")

dynatrace_collectDaemonSets(opts, env) ==
    Collected(<<Exec(Get, File("03", "daemonsets-oneagent", "", "txt")),
                Exec(Get, File("03", "daemonsets-oneagent", "", "yaml"))>>,
              env.fail, env.left, "nil")

(* Faulty variant: every pod that is not Running is described.            *)
collectPods_describingSucceeded(opts, env) ==
    LET bad == SelectSeq(allPods(env.pods), LAMBDA p : p.phase # "Running")
    IN  Collected(<<Exec(Get, File("04", "pods", "", "txt")),
                    Exec(Get, File("04", "pods", "", "yaml")),
                    Run(Get)>>
                  \o [i \in 1..Len(bad) |->
                        Exec(Describe, File("05", "pod-describe", bad[i].name, "txt"))],
                  env.fail, env.left, "nil")

dynatrace_collectPods(opts, env) ==
    LET bad == failingPods(env.pods)
    IN  Collected(<<Exec(Get, File("04", "pods", "", "txt")),
                    Exec(Get, File("04", "pods", "", "yaml")),
                    Run(Get)>>
                  \o [i \in 1..Len(bad) |->
                        Exec(Describe, File("05", "pod-describe", bad[i].name, "txt"))],
                  env.fail, env.left, "nil")

dynatrace_collectEvents(opts, env) ==
    Collected(<<Exec(Get, File("06", "events", "", "txt"))>>, env.fail, env.left, "nil")

dynatrace_collectComponentLogsWithOC(opts, env) ==
    [i \in 1..Len(Components) |-> Exec(Logs, File("07", "logs", Components[i], "txt"))]

(* Faulty variant: the oc fallback is never taken.                         *)
collectComponentLogs_dynatraceOnly(opts, env) ==
    Collected(<<Run(Get)>> \o
              [i \in 1..Len(Components) |->
                    Dt(File("07", "logs", Components[i], "txt"))],
              env.fail, env.left, "nil")

(* getClusterID first (call 1); when the cluster ID cannot be had, or the  *)
(* Dynatrace cluster details or the access token cannot (env.dt = FALSE),  *)
(* the oc fallback runs, otherwise one Dynatrace query per component,      *)
(* whose file is removed when the download fails.                          *)
dynatrace_collectComponentLogs(opts, env) ==
    Collected(<<Run(Get)>> \o
              (IF env.dt /\ 1 \notin env.fail
               THEN [i \in 1..Len(Components) |->
                        Dt(File("07", "logs", Components[i], "txt"))]
               ELSE dynatrace_collectComponentLogsWithOC(opts, env)),
              env.fail, env.left, "nil")

dynatrace_collectClusterCreationTimestamp(opts, env) ==
    Collected(<<Write(File("00", "cluster-creation-note", "", "txt"))>>, env.fail, env.left, "nil")

\* ---- cluster-provisioning-failure

InternalIDPlaceholder == "${INTERNAL_ID}"

(* The install-log command the note gives for the cluster `id`.            *)
InstallLogsCommand(id) == "ocm get /api/clusters_mgmt/v1/clusters/" \o id \o "/resources"

(* Faulty variant: the note with placeholders is written whatever is       *)
(* known.                                                                  *)
createInstallLogsNote_note_placeholderOnly(opts) ==
    << InstallLogsCommand(InternalIDPlaceholder),
       "Find your cluster's INTERNAL_ID",
       "ocm list clusters",
       "ocm get cluster " \o InternalIDPlaceholder,
       "ocm get /api/clusters_mgmt/v1/clusters/" \o InternalIDPlaceholder \o "/events",
       "TIP: You can re-run this command with --cluster-id flag" >>

(* createInstallLogsNote: the commands and headings of the note, in the    *)
(* order of the text.  The concrete note is chosen only when both the      *)
(* cluster ID and the internal ID are set; otherwise the note with         *)
(* placeholders is written.                                                *)
createInstallLogsNote_note(opts) ==
    IF opts.clusterID # "" /\ opts.clusterInternalID # ""
    THEN << "Cluster ID: " \o opts.clusterID,
            "Internal ID: " \o opts.clusterInternalID,
            InstallLogsCommand(opts.clusterInternalID),
            "ocm describe cluster " \o opts.clusterID,
            "ocm get /api/clusters_mgmt/v1/clusters/" \o opts.clusterInternalID \o "/events" >>
    ELSE << InstallLogsCommand(InternalIDPlaceholder),
            "Find your cluster's INTERNAL_ID",
            "ocm list clusters",
            "ocm get cluster " \o InternalIDPlaceholder,
            "ocm get /api/clusters_mgmt/v1/clusters/" \o InternalIDPlaceholder \o "/events",
            "TIP: You can re-run this command with --cluster-id flag" >>

provisioning_createInstallLogsNote(opts, env) ==
    LET ops == <<Write(File("00", "INSTALL-LOGS-COLLECTION", "", "txt"))>>
    IN  Collected(ops, env.fail, env.left, IF 1 \in env.fail THEN "error" ELSE "nil")

(* Faulty variant: the OCM query is made without an internal ID.           *)
collectInstallLogs_withoutID(opts, env) ==
    Collected(<<Ocm(File("01", "install-logs", "", "txt"))>>, env.fail, env.left,
              IF 1 \in env.fail THEN "error" ELSE "nil")

(* collectInstallLogs: "internal ID not available" is returned before any *)
(* command is run when the internal ID is empty.                           *)
provisioning_collectInstallLogs(opts, env) ==
    IF opts.clusterInternalID = ""
    THEN Collected(<<>>, {}, {}, "error")
    ELSE Collected(<<Ocm(File("01", "install-logs", "", "txt"))>>, env.fail, env.left,
                   IF 1 \in env.fail THEN "error" ELSE "nil")

(* Faulty variant: the cluster is asked through the cluster CLI.           *)
collectClusterInfo_viaOC(opts, env) ==
    Collected(<<Exec(Get, File("02", "cluster-info-ocm", "", "txt")),
                Exec(Get, File("02", "cluster-info-ocm", "", "json"))>>,
              env.fail, env.left, "nil")

provisioning_collectClusterInfoViaOCM(opts, env) ==
    LET first == <<Ocm(File("02", "cluster-info-ocm", "", "txt"))>>
        rest == <<Ocm(File("02", "cluster-info-ocm", "", "json"))>> \o
                (IF opts.clusterInternalID # ""
                 THEN <<Ocm(File("03", "cluster-events-ocm", "", "txt"))>>
                 ELSE <<>>)
    IN  IF 1 \in env.fail
        THEN Collected(first, {1}, env.left, "error")
        ELSE Collected(first \o rest, env.fail, env.left, "nil")

---------------------------------------------------------------------------
(* run(): the collectors each subcommand calls, in the order it calls them *)

Collectors(c) ==
    CASE c = Pruning ->
            <<"collectJobs", "collectPods", "collectEvents", "collectNetworkInfo",
              "collectNodeExporterInfo", "collectImageRegistryInfo",
              "collectResourceQuotas", "collectOVNInfo", "collectCronJobInfo",
              "collectSeccompErrors", "collectNodeInfo", "collectJobHistory",
              "collectClusterVersion">>
      [] c = Budget ->
            <<"collectMonitoringOperator", "collectMonitoringPods",
              "collectMonitoringEvents", "collectPrometheusCRDs",
              "collectMonitoringOperatorLogs", "collectResourceQuotas",
              "collectClusterVersion">>
      [] c = Dynatrace ->
            <<"collectDeployments", "collectStatefulSets", "collectDaemonSets",
              "collectPods", "collectEvents", "collectComponentLogs",
              "collectClusterCreationTimestamp">>
      [] c = Provisioning ->
            <<"createInstallLogsNote", "collectInstallLogs",
              "collectClusterInfoViaOCM">>

CollectorResult(c, name, opts, env) ==
    CASE c = Pruning /\ name = "collectJobs" -> pruningCronjob_collectJobs(opts, env)
      [] c = Pruning /\ name = "collectPods" -> pruningCronjob_collectPods(opts, env)
      [] c = Pruning /\ name = "collectEvents" -> pruningCronjob_collectEvents(opts, env)
      [] c = Pruning /\ name = "collectNetworkInfo" -> pruningCronjob_collectNetworkInfo(opts, env)
      [] c = Pruning /\ name = "collectNodeExporterInfo" -> pruningCronjob_collectNodeExporterInfo(opts, env)
      [] c = Pruning /\ name = "collectImageRegistryInfo" -> pruningCronjob_collectImageRegistryInfo(opts, env)
      [] c = Pruning /\ name = "collectResourceQuotas" -> pruningCronjob_collectResourceQuotas(opts, env)
      [] c = Pruning /\ name = "collectOVNInfo" -> pruningCronjob_collectOVNInfo(opts, env)
      [] c = Pruning /\ name = "collectCronJobInfo" -> pruningCronjob_collectCronJobInfo(opts, env)
      [] c = Pruning /\ name = "collectSeccompErrors" -> pruningCronjob_collectSeccompErrors(opts, env)
      [] c = Pruning /\ name = "collectNodeInfo" -> pruningCronjob_collectNodeInfo(opts, env)
      [] c = Pruning /\ name = "collectJobHistory" -> pruningCronjob_collectJobHistory(opts, env)
      [] c = Pruning /\ name = "collectClusterVersion" -> pruningCronjob_collectClusterVersion(opts, env)
      [] c = Budget /\ name = "collectMonitoringOperator" -> errorBudgetBurn_collectMonitoringOperator(opts, env)
      [] c = Budget /\ name = "collectMonitoringPods" -> errorBudgetBurn_collectMonitoringPods(opts, env)
      [] c = Budget /\ name = "collectMonitoringEvents" -> errorBudgetBurn_collectMonitoringEvents(opts, env)
      [] c = Budget /\ name = "collectPrometheusCRDs" -> errorBudgetBurn_collectPrometheusCRDs(opts, env)
      [] c = Budget /\ name = "collectMonitoringOperatorLogs" -> errorBudgetBurn_collectMonitoringOperatorLogs(opts, env)
      [] c = Budget /\ name = "collectResourceQuotas" -> errorBudgetBurn_collectResourceQuotas(opts, env)
      [] c = Budget /\ name = "collectClusterVersion" -> errorBudgetBurn_collectClusterVersion(opts, env)
      [] c = Dynatrace /\ name = "collectDeployments" -> dynatrace_collectDeployments(opts, env)
      [] c = Dynatrace /\ name = "collectStatefulSets" -> dynatrace_collectStatefulSets(opts, env)
      [] c = Dynatrace /\ name = "collectDaemonSets" -> dynatrace_collectDaemonSets(opts, env)
      [] c = Dynatrace /\ name = "collectPods" -> dynatrace_collectPods(opts, env)
      [] c = Dynatrace /\ name = "collectEvents" -> dynatrace_collectEvents(opts, env)
      [] c = Dynatrace /\ name = "collectComponentLogs" -> dynatrace_collectComponentLogs(opts, env)
      [] c = Dynatrace /\ name = "collectClusterCreationTimestamp" -> dynatrace_collectClusterCreationTimestamp(opts, env)
      [] c = Provisioning /\ name = "createInstallLogsNote" -> provisioning_createInstallLogsNote(opts, env)
      [] c = Provisioning /\ name = "collectInstallLogs" -> provisioning_collectInstallLogs(opts, env)
      [] c = Provisioning /\ name = "collectClusterInfoViaOCM" -> provisioning_collectClusterInfoViaOCM(opts, env)

(* What the environment can answer to a collector.                         *)
PodEnvs(c, name) ==
    IF name = "collectPods" /\ c \in {Pruning, Dynatrace} THEN PodLists ELSE {<<>>}
JobEnvs(c, name) ==
    IF name = "collectPods" /\ c = Pruning THEN JobCounts ELSE {0}
DtEnvs(c, name) ==
    IF name = "collectComponentLogs" THEN BOOLEAN ELSE {FALSE}

(* The calls of one collector that fail: none, any single one, or all; a   *)
(* further failure is drawn only while fewer than MaxFailures happened.    *)
FailureSets(n, sofar) ==
    IF Len(sofar) < MaxFailures /\ n > 0
    THEN {{}} \cup {{i} : i \in 1..n} \cup {1..n}
    ELSE {{}}
Outcomes(sofar) == IF Len(sofar) < MaxFailures THEN {TRUE, FALSE} ELSE {TRUE}

OcVerbsOf(ops) == {ops[i].verb : i \in {j \in Indices(ops) : ops[j].kind \in {"exec", "run"}}}
UsesOcm(ops) == \E i \in Indices(ops) : ops[i].kind = "ocm"

---------------------------------------------------------------------------
(* run(): files it writes itself, its control flow and its error handling  *)

OutputDir == File("", "<outputDir>", "", "")
ClusterInfoFile == File("", "cluster-info", "", "txt")
SummaryFile == File("00", "SUMMARY", "", "txt")
Tarball == File("", "<outputDir>", "", "tar.gz")

AnalysisFile(c) ==
    CASE c = Pruning -> File("18", "llm-analysis", "", "txt")
      [] c = Budget -> File("08", "llm-analysis", "", "txt")
      [] c = Dynatrace -> File("08", "llm-analysis", "", "txt")
      [] c = Provisioning -> File("10", "llm-analysis", "", "txt")

(* Faulty variant: the archive is made before the summary is written.      *)
run_next_archiveFirst(c, opts, at) ==
    CASE at = "start" -> IF opts.skipCollection THEN "verify" ELSE "mkdir"
      [] at = "verify" -> IF opts.enableLLMAnalysis THEN "extract" ELSE "finish"
      [] at = "mkdir" -> "prereq"
      [] at = "prereq" -> IF c = Provisioning THEN "collect" ELSE "clusterinfo"
      [] at = "clusterinfo" -> "collect"
      [] at = "collect" -> "tarball"
      [] at = "tarball" -> "summary"
      [] at = "summary" -> IF opts.enableLLMAnalysis THEN "extract" ELSE "finish"
      [] at = "extract" -> "analyze"
      [] at = "analyze" -> "save"
      [] at = "save" -> IF c \in {Dynatrace, Provisioning} THEN "followup" ELSE "finish"
      [] at = "followup" -> "finish"

(* Faulty variant: analyze-existing does not skip the collection.          *)
run_next_collectingAnyway(c, opts, at) ==
    CASE at = "start" -> "mkdir"
      [] at = "verify" -> IF opts.enableLLMAnalysis THEN "extract" ELSE "finish"
      [] at = "mkdir" -> "prereq"
      [] at = "prereq" -> IF c = Provisioning THEN "collect" ELSE "clusterinfo"
      [] at = "clusterinfo" -> "collect"
      [] at = "collect" -> "summary"
      [] at = "summary" -> "tarball"
      [] at = "tarball" -> IF opts.enableLLMAnalysis THEN "extract" ELSE "finish"
      [] at = "extract" -> "analyze"
      [] at = "analyze" -> "save"
      [] at = "save" -> IF c \in {Dynatrace, Provisioning} THEN "followup" ELSE "finish"
      [] at = "followup" -> "finish"

(* Faulty variant: the analysis is run whenever an API key is at hand.     *)
run_next_analyzingWithKey(c, opts, at) ==
    CASE at = "start" -> IF opts.skipCollection THEN "verify" ELSE "mkdir"
      [] at = "verify" -> IF opts.llmAPIKey # <<>> THEN "extract" ELSE "finish"
      [] at = "mkdir" -> "prereq"
      [] at = "prereq" -> IF c = Provisioning THEN "collect" ELSE "clusterinfo"
      [] at = "clusterinfo" -> "collect"
      [] at = "collect" -> "summary"
      [] at = "summary" -> "tarball"
      [] at = "tarball" -> IF opts.llmAPIKey # <<>> THEN "extract" ELSE "finish"
      [] at = "extract" -> "analyze"
      [] at = "analyze" -> "save"
      [] at = "save" -> IF c \in {Dynatrace, Provisioning} THEN "followup" ELSE "finish"
      [] at = "followup" -> "finish"

(* The statement run() goes to once the step `at` is over.                 *)
run_next(c, opts, at) ==
    CASE at = "start" -> IF opts.skipCollection THEN "verify" ELSE "mkdir"
      [] at = "verify" -> IF opts.enableLLMAnalysis THEN "extract" ELSE "finish"
      [] at = "mkdir" -> "prereq"
      [] at = "prereq" -> IF c = Provisioning THEN "collect" ELSE "clusterinfo"
      [] at = "clusterinfo" -> "collect"
      [] at = "collect" -> "summary"
      [] at = "summary" -> "tarball"
      [] at = "tarball" -> IF opts.enableLLMAnalysis THEN "extract" ELSE "finish"
      [] at = "extract" -> "analyze"
      [] at = "analyze" -> "save"
      [] at = "save" -> IF c \in {Dynatrace, Provisioning} THEN "followup" ELSE "finish"
      [] at = "followup" -> "finish"

(* Faulty variant: a failed prerequisite check is only warned about.       *)
run_onError_prereqWarn(c, at) ==
    CASE at \in {"verify", "mkdir", "clusterinfo", "summary"} -> "return"
      [] at = "collect" -> IF c = Provisioning THEN "warn" ELSE "return"
      [] at \in {"prereq", "tarball", "extract", "analyze", "save", "followup"} -> "warn"

(* Faulty variant: a failed archive is returned as an error.               *)
run_onError_archiveFatal(c, at) ==
    CASE at \in {"verify", "mkdir", "prereq", "clusterinfo", "summary", "tarball"} -> "return"
      [] at = "collect" -> IF c = Provisioning THEN "warn" ELSE "return"
      [] at \in {"extract", "analyze", "save", "followup"} -> "warn"

(* What run() does with an error of the step `at`: return it, or print a   *)
(* warning and go on.                                                      *)
run_onError(c, at) ==
    CASE at \in {"verify", "mkdir", "prereq", "clusterinfo", "summary"} -> "return"
      [] at = "collect" -> IF c = Provisioning THEN "warn" ELSE "return"
      [] at \in {"tarball", "extract", "analyze", "save", "followup"} -> "warn"

(* Where run() goes when the step `at` returned an error.                  *)
run_afterError(c, opts, at) ==
    IF run_onError(c, at) = "return" THEN "done"
    ELSE CASE at \in {"extract", "analyze"} -> "finish"
           [] OTHER -> run_next(c, opts, at)

---------------------------------------------------------------------------
(* The conversation with the chat-completion endpoint.                     *)

Message(role, content) == [role |-> role, content |-> content]
SystemPrompt == Message("system", <<"<system prompt>">>)
DiagnosticMessage == Message("user", <<"<diagnostic content>">>)

(* The n-th answer of the endpoint; answers differ from one another.       *)
Answer(n) == <<"<answer>">> \o Rep("+", n)

(* Lines the user may type at the follow-up prompt.                        *)
InputLines ==
    { <<>>, <<" ", "\f">>,
      <<"e", "x", "i", "t">>, <<" ", "Q", "u", "i", "t", " ">>, <<"\f", "Q">>,
      <<"w", "h", "y", "?">>, <<"U+00A0", "h", "o", "w", "?", " ">> }

ExitWords == { <<"e", "x", "i", "t">>, <<"q", "u", "i", "t">>, <<"q">> }

(* analyzeWithLLM: the request is the system prompt and the diagnostics;   *)
(* on success the answer is appended to make the conversation history.     *)
analyzeWithLLM_request == <<SystemPrompt, DiagnosticMessage>>
analyzeWithLLM_history(request, answer) == Append(request, Message("assistant", answer))

(* askFollowUpQuestion: the question is appended to the history it was     *)
(* given and the whole is sent; on success the answer is appended too.     *)
askFollowUpQuestion_request(history, question) == Append(history, Message("user", question))
askFollowUpQuestion_history(request, answer) == Append(request, Message("assistant", answer))

(* Faulty variant: the updated history is dropped after each turn.         *)
interactiveFollowUp_forgetting(history, updatedHistory, ok) == history

(* Faulty variant: the history askFollowUpQuestion returns is kept even    *)
(* when the request failed.                                                *)
interactiveFollowUp_keepingFailed(history, updatedHistory, ok) == updatedHistory

(* interactiveFollowUp: the history kept for the next turn.                *)
interactiveFollowUp_keep(history, updatedHistory, ok) == IF ok THEN updatedHistory ELSE history

(* Faulty variant: the exit words are recognised in lower case only.       *)
interactiveFollowUp_dispatch_caseSensitive(line) ==
    LET question == TrimSpace(line)
    IN  IF question = <<>> THEN "continue"
        ELSE IF question \in ExitWords THEN "break"
        ELSE "ask"

(* What one line of input makes interactiveFollowUp do.                    *)
interactiveFollowUp_dispatch(line) ==
    LET question == TrimSpace(line)
    IN  IF question = <<>> THEN "continue"
        ELSE IF ToLower(question) \in ExitWords THEN "break"
        ELSE "ask"

---------------------------------------------------------------------------
(* The options complete() hands to run().  skipCollection implies          *)
(* enableLLMAnalysis; with analysis enabled complete() fails unless a      *)
(* valid API key was resolved; the internal ID is resolved from --cluster. *)

ApiKey == Rep("k", 10)

Options(c) ==
    { [skipCollection |-> s, enableLLMAnalysis |-> e, llmAPIKey |-> k,
       clusterID |-> cid, clusterInternalID |-> iid] :
        s \in BOOLEAN, e \in BOOLEAN, k \in {<<>>, ApiKey},
        cid \in {"", "cid"}, iid \in {"", "iid"} }

ValidOptions(c) ==
    { opts \in Options(c) :
        /\ opts.skipCollection => opts.enableLLMAnalysis
        /\ opts.enableLLMAnalysis => opts.llmAPIKey # <<>>
        /\ opts.clusterInternalID # "" => opts.clusterID # ""
        /\ c # Provisioning => opts.clusterID = "" }

NoOptions ==
    [skipCollection |-> FALSE, enableLLMAnalysis |-> FALSE, llmAPIKey |-> <<>>,
     clusterID |-> "", clusterInternalID |-> ""]

(* The follow-up prompt has read nothing yet.                             *)
NoInput == [kind |-> "none", line |-> <<>>]

(* What the summary says, before any summary was generated: its Files     *)
(* Collected list and its note on the install logs.                        *)
NoSummary == [walked |-> FALSE, names |-> <<>>, installLogs |-> ""]

RunIdle ==
    /\ cmd = "" /\ o = NoOptions /\ pc = "idle" /\ ci = 0 /\ trace = <<>>
    /\ result = "none" /\ files = {} /\ ocVerbs = {} /\ ocmUsed = FALSE
    /\ failed = <<>> /\ warnings = {} /\ conversationHistory = <<>>
    /\ exchanges = <<>> /\ analysisFile = <<>> /\ turns = 0 /\ summary = NoSummary
    /\ scanned = NoInput

CompleteIdle == cin = <<>> /\ cout = <<>>
ExtractIdle == xcmd = "" /\ xdir = 0 /\ xi = 0 /\ xpiece = <<>> /\ xcount = 0 /\ xmax = 0
DirIdle == dnow = 0 /\ druns = <<>> /\ ddisk = {}
CallIdle == call = <<>> /\ outcome = <<>>

Init ==
    /\ cmd \in Subcommands
    /\ o \in ValidOptions(cmd)
    /\ pc = "start" /\ ci = 1 /\ trace = <<>> /\ result = "none"
    /\ files = {} /\ ocVerbs = {} /\ ocmUsed = FALSE
    /\ failed = <<>> /\ warnings = {}
    /\ conversationHistory = <<>> /\ exchanges = <<>>
    /\ analysisFile = <<>> /\ turns = 0 /\ summary = NoSummary
    /\ scanned = NoInput
    /\ CompleteIdle /\ ExtractIdle /\ DirIdle /\ CallIdle

(* A failure: the step, how many of its calls failed (collectors), their   *)
(* kinds, and what the step returned to run().                             *)
Failure(step, calls, kinds, ret) ==
    [step |-> step, calls |-> calls, kinds |-> kinds, ret |-> ret]

(* The common ending of a step of run(): it succeeded, or it failed and    *)
(* run() returns the error or warns and goes on.                           *)
StepEnds(at, label, ok) ==
    /\ pc' = IF ok THEN run_next(cmd, o, at) ELSE run_afterError(cmd, o, at)
    /\ result' = IF ~ok /\ run_onError(cmd, at) = "return" THEN "error" ELSE result
    /\ warnings' = IF ~ok /\ run_onError(cmd, at) = "warn"
                   THEN warnings \cup {label} ELSE warnings
    /\ failed' = IF ok THEN failed ELSE Append(failed, Failure(label, 0, {}, "error"))
    /\ trace' = Append(trace, label)

llmVars == <<conversationHistory, exchanges, analysisFile, turns, scanned>>
idleVars == <<cin, cout, xcmd, xdir, xi, xpiece, xcount, xmax, dnow, druns, ddisk,
              call, outcome>>

(* analyze-existing: only look for diagnostic files in the directory.      *)
VerifyExisting ==
    /\ pc = "start" /\ run_next(cmd, o, "start") = "verify"
    /\ \E hasFiles \in BOOLEAN : StepEnds("verify", "verify-existing", hasFiles)
    /\ UNCHANGED <<cmd, o, ci, files, ocVerbs, ocmUsed, llmVars, summary, idleVars>>

MkdirAll ==
    /\ pc = "start" /\ run_next(cmd, o, "start") = "mkdir"
    /\ \E ok \in Outcomes(failed) :
        /\ StepEnds("mkdir", "mkdir", ok)
        /\ files' = IF ok THEN files \cup {OutputDir} ELSE files
    /\ UNCHANGED <<cmd, o, ci, ocVerbs, ocmUsed, llmVars, summary, idleVars>>

(* oc-based subcommands: exec.LookPath("oc"), then `oc cluster-info` to    *)
(* /dev/null; cluster-provisioning-failure: the cluster ID must be given.  *)
CheckPrerequisites ==
    /\ pc = "prereq"
    /\ IF cmd = Provisioning
       THEN /\ StepEnds("prereq", "prerequisites", o.clusterID # "")
            /\ UNCHANGED ocVerbs
       ELSE \E lookPath \in Outcomes(failed), login \in Outcomes(failed) :
            /\ StepEnds("prereq", "prerequisites", lookPath /\ login)
            /\ ocVerbs' = IF lookPath THEN ocVerbs \cup {ClusterInfo} ELSE ocVerbs
    /\ UNCHANGED <<cmd, o, ci, files, ocmUsed, llmVars, summary, idleVars>>

(* getClusterID (error ignored), cluster-info.txt written (error returned) *)
(* and `oc cluster-info` appended to it (error ignored).  A write that     *)
(* fails may leave the file it opened (left), empty or cut short.          *)
SaveClusterInfo ==
    /\ pc = "clusterinfo"
    /\ \E ok \in Outcomes(failed), left \in BOOLEAN :
        /\ ok => ~left
        /\ StepEnds("clusterinfo", "cluster-info", ok)
        /\ files' = IF ok \/ left THEN files \cup {ClusterInfoFile} ELSE files
        /\ ocVerbs' = ocVerbs \cup {Get} \cup (IF ok THEN {ClusterInfo} ELSE {})
    /\ UNCHANGED <<cmd, o, ci, ocmUsed, llmVars, summary, idleVars>>

(* One collector call of run().                                            *)
RunCollector ==
    /\ pc = "collect"
    /\ LET name == Collectors(cmd)[ci]
       IN  \E pods \in PodEnvs(cmd, name), jobs \in JobEnvs(cmd, name),
              dt \in DtEnvs(cmd, name) :
           LET base == [pods |-> pods, jobs |-> jobs, dt |-> dt, fail |-> {}, left |-> {}]
               calls == Len(CollectorResult(cmd, name, o, base).ops)
           IN  \E fail \in FailureSets(calls, failed) :
               \E left \in LeftSets(CollectorResult(cmd, name, o,
                                        [base EXCEPT !.fail = fail]).ops, fail) :
               LET r == CollectorResult(cmd, name, o,
                                        [base EXCEPT !.fail = fail, !.left = left])
                   ok == r.ret = "nil"
                   last == ci = Len(Collectors(cmd))
               IN  /\ trace' = Append(trace, name)
                   /\ ocVerbs' = ocVerbs \cup OcVerbsOf(r.ops)
                   /\ ocmUsed' = (ocmUsed \/ UsesOcm(r.ops))
                   /\ files' = files \cup r.written
                   /\ failed' = IF fail = {} /\ ok THEN failed
                                ELSE Append(failed, Failure(name, Cardinality(fail),
                                        {r.ops[i].kind : i \in fail \cap Indices(r.ops)},
                                        r.ret))
                   /\ warnings' = IF ~ok /\ run_onError(cmd, "collect") = "warn"
                                  THEN warnings \cup {name} ELSE warnings
                   /\ IF ~ok /\ run_onError(cmd, "collect") = "return"
                      THEN pc' = "done" /\ result' = "error" /\ ci' = ci
                      ELSE /\ pc' = IF last THEN run_next(cmd, o, "collect") ELSE pc
                           /\ ci' = ci + 1
                           /\ result' = result
    /\ UNCHANGED <<cmd, o, llmVars, summary, idleVars>>

(* sort.Strings: byte order.  The characters file names are made of, in   *)
(* increasing byte value.                                                  *)
Alphabet ==
    <<"-", ".", "0", "1", "2", "3", "4", "5", "6", "7", "8", "9",
      "A", "B", "C", "D", "E", "F", "G", "H", "I", "J", "K", "L", "M",
      "N", "O", "P", "Q", "R", "S", "T", "U", "V", "W", "X", "Y", "Z",
      "a", "b", "c", "d", "e", "f", "g", "h", "i", "j", "k", "l", "m",
      "n", "o", "p", "q", "r", "s", "t", "u", "v", "w", "x", "y", "z">>

ByteRank == [ch \in {Alphabet[i] : i \in 1..Len(Alphabet)} |->
                CHOOSE i \in 1..Len(Alphabet) : Alphabet[i] = ch]

RECURSIVE StringLessFrom(_, _, _)
StringLessFrom(a, b, i) ==
    IF i > Len(b) THEN FALSE
    ELSE IF i > Len(a) THEN TRUE
    ELSE LET ca == ByteRank[SubSeq(a, i, i)]
             cb == ByteRank[SubSeq(b, i, i)]
         IN  IF ca # cb THEN ca < cb ELSE StringLessFrom(a, b, i + 1)

StringLess(a, b) == StringLessFrom(a, b, 1)

RECURSIVE SortStrings(_)
SortStrings(names) ==
    IF names = {} THEN <<>>
    ELSE LET least == CHOOSE x \in names : \A y \in names : ~StringLess(y, x)
         IN  <<least>> \o SortStrings(names \ {least})

(* Faulty variant: the summary lists the text files only.                  *)
generateSummary_files_txtOnly(dir, walked) ==
    IF walked
    THEN SortStrings({BaseName(f) : f \in {g \in dir : g.ext = "txt"}})
    ELSE <<>>

(* generateSummary: filepath.Walk over the output directory keeps the base *)
(* names of the .txt, .yaml and .json files, which are sorted and listed;   *)
(* when the walk fails nothing is listed.                                   *)
generateSummary_files(dir, walked) ==
    IF walked
    THEN SortStrings({BaseName(f) :
            f \in {g \in dir : g.ext \in {"txt", "yaml", "json"}}})
    ELSE <<>>

InstallLogsFile == File("01", "install-logs", "", "txt")

(* generateSummaryForFailedInstall: a preview of 01-install-logs.txt when  *)
(* it can be read, "Install Logs: Not available - see ..." otherwise; the  *)
(* other subcommands' summaries have no such section.                      *)
generateSummaryForFailedInstall_installLogs(c, dir) ==
    IF c # Provisioning THEN ""
    ELSE IF InstallLogsFile \in dir THEN "preview"
    ELSE "Not available"

(* generateSummary / generateSummaryForFailedInstall: the list is made     *)
(* from what the directory holds, then 00-SUMMARY.txt is written; the      *)
(* pruning summary also asks the cluster for its network type.  A write    *)
(* that fails may leave the file (left) with the start of the summary: the *)
(* first names of the list, or the whole text.                             *)
GenerateSummary ==
    /\ pc = "summary"
    /\ \E ok \in Outcomes(failed), walked \in Outcomes(failed), left \in BOOLEAN :
        LET whole == [walked |-> walked,
                      names |-> generateSummary_files(files \ {OutputDir}, walked),
                      installLogs |->
                          generateSummaryForFailedInstall_installLogs(cmd, files)]
        IN  /\ ok => ~left
            /\ StepEnds("summary", "summary", ok)
            /\ files' = IF ok \/ left THEN files \cup {SummaryFile} ELSE files
            /\ \/ ok /\ summary' = whole
               \/ ~ok /\ ~left /\ summary' = summary
               \/ /\ ~ok /\ left
                  /\ \/ summary' = whole
                     \/ \E k \in 0..Len(whole.names) :
                           summary' = [whole EXCEPT !.names = SubSeq(whole.names, 1, k),
                                                    !.installLogs = ""]
    /\ ocVerbs' = IF cmd = Pruning THEN ocVerbs \cup {Get} ELSE ocVerbs
    /\ UNCHANGED <<cmd, o, ci, ocmUsed, llmVars, idleVars>>

(* createTarball: tar writes the archive; a failing tar may leave what it  *)
(* wrote of it (left).                                                     *)
CreateTarball ==
    /\ pc = "tarball"
    /\ \E ok \in Outcomes(failed), left \in BOOLEAN :
        /\ ok => ~left
        /\ StepEnds("tarball", "archive", ok)
        /\ files' = IF ok \/ left THEN files \cup {Tarball} ELSE files
    /\ UNCHANGED <<cmd, o, ci, ocVerbs, ocmUsed, llmVars, summary, idleVars>>

(* extractAndReadDiagnostics skips a file it cannot read and returns no    *)
(* error whatever happened.                                                *)
extractAndReadDiagnostics_returns(readable) == "nil"

ExtractAndReadDiagnostics ==
    /\ pc = "extract"
    /\ \E readable \in Outcomes(failed) :
        LET ok == extractAndReadDiagnostics_returns(readable) = "nil"
        IN  /\ pc' = IF ok THEN run_next(cmd, o, "extract")
                     ELSE run_afterError(cmd, o, "extract")
            /\ warnings' = IF ok THEN warnings ELSE warnings \cup {"read-diagnostics"}
            /\ failed' = IF readable THEN failed
                         ELSE Append(failed, Failure("read-diagnostics", 0, {}, "nil"))
            /\ trace' = Append(trace, "read-diagnostics")
    /\ UNCHANGED <<cmd, o, ci, result, files, ocVerbs, ocmUsed, llmVars, summary, idleVars>>

Exchange(request, ok, n) ==
    [request |-> request, ok |-> ok, answer |-> IF ok THEN Answer(n) ELSE <<>>]

(* analyzeWithLLM: one request to the endpoint.                            *)
AnalyzeWithLLM ==
    /\ pc = "analyze"
    /\ \E ok \in Outcomes(failed) :
        LET x == Exchange(analyzeWithLLM_request, ok, Len(exchanges) + 1)
        IN  /\ StepEnds("analyze", "llm-request", ok)
            /\ exchanges' = Append(exchanges, x)
            /\ conversationHistory' =
                  IF ok THEN analyzeWithLLM_history(x.request, x.answer) ELSE <<>>
    /\ UNCHANGED <<cmd, o, ci, files, ocVerbs, ocmUsed, analysisFile, turns, scanned,
                   summary, idleVars>>

Chunk(question, response) == [question |-> question, response |-> response]

(* The analysis is written to NN-llm-analysis.txt.  A write that fails     *)
(* may leave the file (left): empty, or with the start of the analysis.    *)
SaveAnalysis ==
    /\ pc = "save"
    /\ \E ok \in Outcomes(failed), left \in BOOLEAN :
        LET analysis == exchanges[Len(exchanges)].answer
        IN  /\ ok => ~left
            /\ StepEnds("save", "save-analysis", ok)
            /\ files' = IF ok \/ left THEN files \cup {AnalysisFile(cmd)} ELSE files
            /\ \/ ok /\ analysisFile' = <<Chunk(<<>>, analysis)>>
               \/ ~ok /\ analysisFile' = analysisFile
               \/ /\ ~ok /\ left
                  /\ \E k \in 1..Len(analysis) :
                        analysisFile' = <<Chunk(<<>>, SubSeq(analysis, 1, k))>>
    /\ UNCHANGED <<cmd, o, ci, ocVerbs, ocmUsed, conversationHistory, exchanges,
                   turns, scanned, summary, idleVars>>

(* interactiveFollowUp is entered.                                         *)
InteractiveFollowUp ==
    /\ pc = "followup"
    /\ pc' = "prompt"
    /\ trace' = Append(trace, "follow-up")
    /\ UNCHANGED <<cmd, o, ci, result, files, ocVerbs, ocmUsed, failed, warnings,
                   llmVars, summary, idleVars>>

(* scanner.Scan() returns false: end of input, or a read error that        *)
(* interactiveFollowUp returns and run() warns about.                      *)
FollowUpInputEnds ==
    /\ pc = "prompt"
    /\ \E eof \in Outcomes(failed) :
        /\ pc' = IF eof THEN run_next(cmd, o, "followup")
                 ELSE run_afterError(cmd, o, "followup")
        /\ warnings' = IF eof THEN warnings ELSE warnings \cup {"follow-up"}
        /\ failed' = IF eof THEN failed ELSE Append(failed, Failure("follow-up", 0, {}, "error"))
        /\ scanned' = [kind |-> IF eof THEN "eof" ELSE "error", line |-> <<>>]
    /\ UNCHANGED <<cmd, o, ci, trace, result, files, ocVerbs, ocmUsed,
                   conversationHistory, exchanges, analysisFile, turns, summary, idleVars>>

(* One line is read that asks nothing: blank (continue) or exit (break).   *)
FollowUpLine ==
    /\ pc = "prompt"
    /\ \E line \in InputLines :
        /\ interactiveFollowUp_dispatch(line) # "ask"
        /\ pc' = IF interactiveFollowUp_dispatch(line) = "break"
                 THEN run_next(cmd, o, "followup") ELSE pc
        /\ scanned' = [kind |-> "line", line |-> line]
    /\ UNCHANGED <<cmd, o, ci, trace, result, files, ocVerbs, ocmUsed, failed,
                   warnings, conversationHistory, exchanges, analysisFile, turns,
                   summary, idleVars>>

(* One line is read that is a question: askFollowUpQuestion, then the      *)
(* history is updated and the exchange appended to the analysis file.  An  *)
(* append that fails may have opened (and so created) the file and written *)
(* the start of the exchange (left).                                       *)
FollowUpQuestion ==
    /\ pc = "prompt" /\ turns < MaxTurns
    /\ \E line \in InputLines, ok \in Outcomes(failed), appended \in Outcomes(failed),
          left \in BOOLEAN :
        /\ interactiveFollowUp_dispatch(line) = "ask"
        /\ ok \/ appended
        /\ left => ok /\ ~appended
        /\ scanned' = [kind |-> "line", line |-> line]
        /\ LET question == TrimSpace(line)
               request == askFollowUpQuestion_request(conversationHistory, question)
               x == Exchange(request, ok, Len(exchanges) + 1)
               updatedHistory == askFollowUpQuestion_history(request, x.answer)
           IN  /\ exchanges' = Append(exchanges, x)
               /\ conversationHistory' =
                     interactiveFollowUp_keep(conversationHistory, updatedHistory, ok)
               /\ \/ /\ ok /\ appended
                     /\ analysisFile' = Append(analysisFile, Chunk(question, x.answer))
                  \/ ~(ok /\ appended) /\ analysisFile' = analysisFile
                  \/ /\ left
                     /\ \/ \E j \in 1..Len(question) :
                             analysisFile' =
                                 Append(analysisFile, Chunk(SubSeq(question, 1, j), <<>>))
                        \/ \E k \in 1..Len(x.answer) :
                             analysisFile' =
                                 Append(analysisFile,
                                        Chunk(question, SubSeq(x.answer, 1, k)))
               /\ files' = IF (ok /\ appended) \/ left THEN files \cup {AnalysisFile(cmd)}
                           ELSE files
               /\ failed' = IF ~ok THEN Append(failed, Failure("follow-up-request", 0, {}, "error"))
                            ELSE IF ~appended
                                 THEN Append(failed, Failure("append-analysis", 0, {}, "error"))
                                 ELSE failed
    /\ trace' = Append(trace, "follow-up-request")
    /\ turns' = turns + 1
    /\ UNCHANGED <<cmd, o, ci, pc, result, ocVerbs, ocmUsed, warnings, summary, idleVars>>

(* run() prints the closing notes and returns nil.                         *)
Finish ==
    /\ pc = "finish"
    /\ pc' = "done"
    /\ result' = "nil"
    /\ UNCHANGED <<cmd, o, ci, trace, files, ocVerbs, ocmUsed, failed, warnings,
                   llmVars, summary, idleVars>>

Next ==
    \/ VerifyExisting
    \/ MkdirAll
    \/ CheckPrerequisites
    \/ SaveClusterInfo
    \/ RunCollector
    \/ GenerateSummary
    \/ CreateTarball
    \/ ExtractAndReadDiagnostics
    \/ AnalyzeWithLLM
    \/ SaveAnalysis
    \/ InteractiveFollowUp
    \/ FollowUpInputEnds
    \/ FollowUpLine
    \/ FollowUpQuestion
    \/ Finish

Spec == Init /\ [][Next]_vars

---------------------------------------------------------------------------
(* Properties of run().                                                    *)

Range(seq) == {seq[i] : i \in 1..Len(seq)}
Has(step) == step \in Range(trace)
CollectorNames == Range(Collectors(cmd))
CollectorsRun == SelectSeq(trace, LAMBDA step : step \in CollectorNames)
FailedSteps == {failed[i].step : i \in 1..Len(failed)}

StepRank(step) ==
    CASE step = "verify-existing" -> 0
      [] step = "mkdir" -> 1
      [] step = "prerequisites" -> 2
      [] step = "cluster-info" -> 3
      [] step \in CollectorNames -> 4
      [] step = "summary" -> 5
      [] step = "archive" -> 6
      [] step = "read-diagnostics" -> 7
      [] step = "llm-request" -> 8
      [] step = "save-analysis" -> 9
      [] step = "follow-up" -> 10
      [] step = "follow-up-request" -> 11

Repeatable(step) == step \in CollectorNames \cup {"follow-up-request"}

(* C1: in a collection run the steps happen in a fixed order: the output   *)
(* directory is created first, then every collector runs (in the order of  *)
(* the subcommand), then the summary is written, then the archive is made, *)
(* then, only if analysis is enabled, the LLM request is sent, and only    *)
(* after it the follow-up loop starts.                                     *)
C1_FixedOrder ==
    ~o.skipCollection =>
        /\ \A i \in 1..(Len(trace) - 1) :
              \/ StepRank(trace[i]) < StepRank(trace[i + 1])
              \/ /\ StepRank(trace[i]) = StepRank(trace[i + 1])
                 /\ Repeatable(trace[i])
        /\ trace # <<>> => trace[1] = "mkdir"
        /\ CollectorsRun = SubSeq(Collectors(cmd), 1, Len(CollectorsRun))
        /\ Has("summary") => CollectorsRun = Collectors(cmd)
        /\ Has("archive") => Has("summary")
        /\ Has("llm-request") => o.enableLLMAnalysis /\ Has("archive")
        /\ Has("follow-up") => Has("llm-request")

C1_Witness ==
    /\ pc = "done" /\ ~o.skipCollection /\ cmd = Dynatrace
    /\ Has("archive") /\ Has("llm-request") /\ Has("follow-up-request")

(* C3: in analyze-existing mode run() skips the collection: no cluster CLI *)
(* or OCM command is invoked, no directory is created, no summary and no   *)
(* archive are written; the only steps are the look into the directory and *)
(* the analysis.                                                           *)
C3_SkipCollection ==
    o.skipCollection =>
        /\ ocVerbs = {} /\ ~ocmUsed
        /\ files \subseteq {AnalysisFile(cmd)}
        /\ Range(trace) \subseteq {"verify-existing", "read-diagnostics", "llm-request",
                                   "save-analysis", "follow-up", "follow-up-request"}

C3_Witness ==
    o.skipCollection /\ pc = "done" /\ Has("verify-existing") /\ Has("llm-request")

IsCliFailure(f) ==
    f.step \in CollectorNames /\ f.calls > 0 /\ f.kinds \subseteq {"exec", "run"}

(* C4: when cluster-CLI invocations inside collectors fail (and nothing    *)
(* else does), each such collector still returns no error, run() returns   *)
(* no error, and every collector, the summary and the archive step are     *)
(* executed.                                                               *)
C4_CliFailureDoesNotStop ==
    (~o.skipCollection /\ \A i \in 1..Len(failed) : IsCliFailure(failed[i])) =>
        /\ \A i \in 1..Len(failed) : failed[i].ret = "nil"
        /\ result # "error"
        /\ pc = "done" =>
              CollectorsRun = Collectors(cmd) /\ Has("summary") /\ Has("archive")

C4_Witness ==
    /\ pc = "done" /\ Len(failed) = 1 /\ IsCliFailure(failed[1])
    /\ failed[1].calls = 1
    /\ failed[1].step = Collectors(cmd)[1]
    /\ Has("archive")

WarnedSteps == {"archive", "llm-request", "follow-up"}
OptionalSteps == WarnedSteps \cup {"read-diagnostics"}

(* C5 (amended): a failure of an optional step never makes run() return an *)
(* error.  A failed archive, LLM request or follow-up loop is warned about *)
(* and run() goes on and returns nil; a diagnostic file that cannot be     *)
(* read is skipped without any warning, and the analysis still runs.       *)
C5_OptionalFailuresNeverFatal ==
    /\ \A i \in 1..Len(failed) :
          failed[i].step \in WarnedSteps => failed[i].step \in warnings
    /\ "read-diagnostics" \notin warnings
    /\ FailedSteps \subseteq OptionalSteps =>
          /\ result # "error"
          /\ pc = "done" =>
                /\ result = "nil"
                /\ ("archive" \in FailedSteps /\ o.enableLLMAnalysis) => Has("read-diagnostics")
                /\ "read-diagnostics" \in FailedSteps => Has("llm-request")

C5_Witness ==
    /\ pc = "done" /\ result = "nil" /\ o.enableLLMAnalysis
    /\ FailedSteps = {"archive"} /\ "archive" \in warnings /\ Has("llm-request")

(* C5 as written: every failed optional step, reading the diagnostics      *)
(* included, is warned about and run() returns no error.                   *)
C5_AsWritten ==
    \A i \in 1..Len(failed) :
        failed[i].step \in OptionalSteps =>
            failed[i].step \in warnings /\ result # "error"

(* C6: unless LLM analysis is enabled, no request is sent to the           *)
(* chat-completion endpoint, whatever API key is configured.               *)
C6_NoRequestUnlessEnabled == ~o.enableLLMAnalysis => exchanges = <<>>

C6_Witness ==
    /\ pc = "done" /\ result = "nil" /\ ~o.enableLLMAnalysis
    /\ o.llmAPIKey # <<>> /\ Has("archive") /\ exchanges = <<>>

(* The transcript after the first k exchanges, as the endpoint saw them:   *)
(* system prompt, diagnostics, first analysis, then each answered question *)
(* with its answer.                                                        *)
RECURSIVE Transcript(_, _)
Transcript(xs, k) ==
    IF k = 1
    THEN <<SystemPrompt, DiagnosticMessage, Message("assistant", xs[1].answer)>>
    ELSE Transcript(xs, k - 1) \o
         (IF xs[k].ok
          THEN <<xs[k].request[Len(xs[k].request)], Message("assistant", xs[k].answer)>>
          ELSE <<>>)

(* C8: each follow-up request holds the whole transcript so far, in order, *)
(* followed by the new question as its last message.                       *)
C8_WholeTranscriptEachTurn ==
    \A k \in 2..Len(exchanges) :
        LET r == exchanges[k].request
        IN  /\ Len(r) >= 1
            /\ SubSeq(r, 1, Len(r) - 1) = Transcript(exchanges, k - 1)
            /\ r[Len(r)].role = "user"
            /\ r[Len(r)].content # <<>>
            /\ r[Len(r)].content = TrimSpace(r[Len(r)].content)

C8_Witness ==
    /\ Len(exchanges) >= 3 /\ exchanges[2].ok
    /\ exchanges[2].request[Len(exchanges[2].request)].content
         # exchanges[3].request[Len(exchanges[3].request)].content

(* C9: after a successful LLM analysis every subcommand starts the         *)
(* interactive follow-up session.                                          *)
C9_FollowUpAfterAnalysis ==
    (pc = "done" /\ exchanges # <<>> /\ exchanges[1].ok) => Has("follow-up")

C9_Witness ==
    /\ pc = "done" /\ result = "nil" /\ cmd = Pruning
    /\ exchanges # <<>> /\ exchanges[1].ok /\ Has("save-analysis")
    /\ ~Has("follow-up")

ReadOnlyVerbs == {Get, Describe, Logs, AdmTop, ClusterInfo}

(* C10: every cluster-CLI invocation is read-only: the only subcommands    *)
(* executed are get, describe, logs, adm top and cluster-info.             *)
C10_ReadOnlyInvocations == ocVerbs \subseteq ReadOnlyVerbs

C10_Witness ==
    /\ pc = "done" /\ cmd = Pruning
    /\ ocVerbs = ReadOnlyVerbs

(* Files inside the output directory (the archive is written next to it). *)
BundleFiles == files \ {OutputDir, Tarball}

(* C12: every file a collection run writes into the output directory has   *)
(* a two-digit numeric prefix in its name.                                 *)
C12_NumberedFiles ==
    ~o.skipCollection => \A f \in BundleFiles : f.num # "" /\ Len(f.num) = 2

C12_Witness ==
    /\ pc = "done" /\ result = "nil" /\ cmd = Dynatrace /\ ~o.skipCollection
    /\ ClusterInfoFile \in BundleFiles /\ ClusterInfoFile.num = ""
    /\ SummaryFile \in BundleFiles

(* The files the collectors and run() had written when the summary was    *)
(* generated: everything in the bundle but the summary itself and the      *)
(* analysis file, which are written later.                                 *)
WrittenBeforeSummary == BundleFiles \ {SummaryFile, AnalysisFile(cmd)}

(* C16 (amended): the Files Collected list of the summary holds, in        *)
(* strictly increasing byte order, exactly the .txt, .yaml and .json files *)
(* the run had written before the summary step; 00-SUMMARY.txt itself and  *)
(* the later analysis file are not in it, and the list is empty when the   *)
(* walk over the directory failed.  This is said of a summary whose write  *)
(* succeeded; a failed write may leave the file cut short.                 *)
C16_SummaryListsCollectedFiles ==
    (~o.skipCollection /\ SummaryFile \in files /\ "summary" \notin FailedSteps) =>
        /\ summary.walked =>
              Range(summary.names) = {BaseName(f) : f \in WrittenBeforeSummary}
        /\ ~summary.walked => summary.names = <<>>
        /\ \A i \in 1..(Len(summary.names) - 1) :
              StringLess(summary.names[i], summary.names[i + 1])

C16_Witness ==
    /\ pc = "done" /\ cmd = Budget /\ SummaryFile \in files /\ summary.walked
    /\ \E i \in 1..(Len(summary.names) - 1) :
          /\ summary.names[i] = "05-cmo-logs-all-containers.txt"
          /\ summary.names[i + 1] = "05-cmo-logs.txt"
    /\ "01-monitoring-clusteroperator.yaml" \in Range(summary.names)
    /\ summary.names[Len(summary.names)] = "cluster-info.txt"

(* C16 as written: every .txt, .yaml and .json file the run wrote into the *)
(* output directory is in the list.                                        *)
C16_AsWritten ==
    (~o.skipCollection /\ SummaryFile \in files /\ "summary" \notin FailedSteps
        /\ summary.walked) =>
        \A f \in BundleFiles :
            f.ext \in {"txt", "yaml", "json"} => BaseName(f) \in Range(summary.names)

(* A provisioning collection run whose internal ID could not be resolved.  *)
WithoutInternalID ==
    cmd = Provisioning /\ ~o.skipCollection /\ o.clusterID # "" /\ o.clusterInternalID = ""

(* The failures of the run other than that of collectInstallLogs.         *)
OtherFailures == {i \in 1..Len(failed) : failed[i].step # "collectInstallLogs"}

(* C17: without an internal ID the provisioning run still succeeds:        *)
(* collectInstallLogs returns an error without running a command or        *)
(* writing 01-install-logs.txt, run() only warns about it, and unless      *)
(* another step failed the run returns no error with 00-SUMMARY.txt        *)
(* written, which says that the install logs are not available.            *)
C17_RunSucceedsWithoutInternalID ==
    WithoutInternalID =>
        /\ InstallLogsFile \notin files
        /\ Has("collectInstallLogs") =>
              /\ "collectInstallLogs" \in warnings
              /\ \E i \in 1..Len(failed) :
                    failed[i] = Failure("collectInstallLogs", 0, {}, "error")
        /\ (SummaryFile \in files /\ "summary" \notin FailedSteps) =>
              summary.installLogs = "Not available"
        /\ (pc = "done" /\ OtherFailures = {}) =>
              result = "nil" /\ SummaryFile \in files

C17_Witness ==
    /\ WithoutInternalID /\ pc = "done" /\ result = "nil"
    /\ failed = <<Failure("collectInstallLogs", 0, {}, "error")>>
    /\ File("02", "cluster-info-ocm", "", "txt") \in files
    /\ SummaryFile \in files /\ summary.installLogs = "Not available"

(* The run was rejected by a prerequisite check.                           *)
PrerequisiteFailed == ~o.skipCollection /\ "prerequisites" \in FailedSteps

(* C21: when a prerequisite check fails (oc not installed, not logged in,  *)
(* or --cluster missing for cluster-provisioning-failure) run() returns an *)
(* error at once: no collector, no summary, no archive and no LLM analysis *)
(* is executed.                                                            *)
C21_PrerequisiteFailureStopsRun ==
    PrerequisiteFailed =>
        /\ pc = "done" /\ result = "error"
        /\ trace[Len(trace)] = "prerequisites"
        /\ CollectorsRun = <<>>
        /\ ~Has("cluster-info") /\ ~Has("summary") /\ ~Has("archive")
        /\ ~Has("read-diagnostics") /\ ~Has("llm-request") /\ ~Has("follow-up")
        /\ exchanges = <<>> /\ ~ocmUsed

C21_Witness ==
    /\ PrerequisiteFailed /\ cmd = Provisioning /\ o.clusterID = ""
    /\ o.enableLLMAnalysis /\ pc = "done" /\ result = "error"
    /\ trace = <<"mkdir", "prerequisites">>

(* C22: a collection run rejected by a prerequisite check leaves nothing   *)
(* on disk: neither the output directory nor any file.                     *)
C22_RejectedRunLeavesNothing == PrerequisiteFailed => files = {}

C22_Witness ==
    /\ PrerequisiteFailed /\ cmd = Budget /\ pc = "done" /\ result = "error"
    /\ files = {OutputDir}

(* A follow-up request has just failed.                                    *)
FollowUpRequestFails ==
    /\ Len(exchanges) >= 1 /\ Len(exchanges') = Len(exchanges) + 1
    /\ ~exchanges'[Len(exchanges')].ok

(* What a request was based on: all of it but the question asked.          *)
BasisOf(x) == SubSeq(x.request, 1, Len(x.request) - 1)

(* C23: a follow-up question whose request fails does not end the loop and *)
(* changes neither the transcript nor the analysis file; the next question *)
(* is sent with the transcript the failed one was sent with, without the   *)
(* unanswered question.                                                    *)
C23_FailedQuestionLeavesNoTrace ==
    /\ [][FollowUpRequestFails =>
            /\ pc = "prompt" /\ pc' = "prompt" /\ result' = result
            /\ conversationHistory' = conversationHistory
            /\ analysisFile' = analysisFile /\ files' = files]_vars
    /\ [](\A k \in 2..(Len(exchanges) - 1) :
            ~exchanges[k].ok => BasisOf(exchanges[k + 1]) = BasisOf(exchanges[k]))

C23_Witness ==
    /\ Len(exchanges) = 3 /\ exchanges[1].ok /\ ~exchanges[2].ok /\ exchanges[3].ok
    /\ exchanges[2].request[Len(exchanges[2].request)]
          \notin Range(exchanges[3].request)
    /\ Len(exchanges[3].request) = Len(exchanges[2].request)
    /\ Len(analysisFile) = 2 /\ Len(conversationHistory) = 5

(* The prompt has just read something: this step is one turn of the loop. *)
PromptStep ==
    /\ pc = "prompt" /\ scanned'.kind # "none"
    /\ <<pc, scanned, exchanges, failed>>' # <<pc, scanned, exchanges, failed>>

(* The line just read, trimmed, and whether it is one of the exit words.   *)
ScannedQuestion == TrimSpace(scanned'.line)
ScannedExit ==
    /\ scanned'.kind = "line"
    /\ ToLower(ScannedQuestion) \in
          { <<"e", "x", "i", "t">>, <<"q", "u", "i", "t">>, <<"q">> }
RequestsSent == Len(exchanges') - Len(exchanges)

(* C24 (amended): the follow-up loop ends exactly when the user enters     *)
(* exit, quit or q (any letter case, surrounding whitespace ignored), when *)
(* standard input reaches end of file, or when reading it fails (which     *)
(* run() warns about); an empty line sends no request and keeps the loop   *)
(* running; any other line that could be read sends exactly one request    *)
(* and keeps the loop running.                                             *)
C24_LoopEndsOnExitEofOrReadError ==
    [][PromptStep =>
        /\ (pc' # "prompt") <=> (ScannedExit \/ scanned'.kind \in {"eof", "error"})
        /\ scanned'.kind = "error" <=> "follow-up" \in warnings'
        /\ RequestsSent = IF scanned'.kind = "line" /\ ScannedQuestion # <<>> /\ ~ScannedExit
                           THEN 1 ELSE 0]_vars

C24_Witness ==
    /\ pc = "done" /\ result = "nil" /\ Len(exchanges) = 2
    /\ scanned = [kind |-> "line", line |-> <<" ", "Q", "u", "i", "t", " ">>]

(* C24 as written: the loop ends only on an exit word or at end of file,   *)
(* and whatever else is entered sends exactly one request.                 *)
C24_AsWritten ==
    [][PromptStep =>
        /\ (pc' # "prompt") <=> (ScannedExit \/ scanned'.kind = "eof")
        /\ RequestsSent = IF scanned'.kind = "line" /\ ScannedQuestion # <<>> /\ ~ScannedExit
                           THEN 1 ELSE 0]_vars

(* The answered follow-up exchanges, in the order they were asked.         *)
AnsweredFollowUps ==
    SelectSeq(SubSeq(exchanges, 2, Len(exchanges)), LAMBDA x : x.ok)

(* C25: whenever the analysis file exists it starts with the initial       *)
(* analysis, followed by answered follow-up questions with their responses *)
(* in the order they were asked; no follow-up entry is in a file that      *)
(* lacks the initial analysis.                                             *)
C25_AnalysisFileStartsWithAnalysis ==
    (AnalysisFile(cmd) \in files \/ analysisFile # <<>>) =>
        /\ analysisFile # <<>>
        /\ analysisFile[1] = Chunk(<<>>, exchanges[1].answer)
        /\ \A i \in 2..Len(analysisFile) : analysisFile[i].question # <<>>
        /\ \E pick \in [2..Len(analysisFile) -> 1..Len(AnsweredFollowUps)] :
              /\ \A i, j \in 2..Len(analysisFile) : i < j => pick[i] < pick[j]
              /\ \A i \in 2..Len(analysisFile) :
                    LET x == AnsweredFollowUps[pick[i]]
                    IN  analysisFile[i] =
                          Chunk(x.request[Len(x.request)].content, x.answer)

C25_Witness ==
    /\ pc = "done" /\ result = "nil" /\ cmd = Provisioning
    /\ "save-analysis" \in FailedSteps /\ AnalysisFile(cmd) \in files
    /\ Len(analysisFile) = 1 /\ analysisFile[1].question # <<>>
    /\ analysisFile[1].response = exchanges[2].answer

(* C27: a cluster-provisioning-failure collection run gathers everything  *)
(* via OCM: neither the cluster-CLI executor nor the cluster-CLI runner is *)
(* ever invoked, and every file in the bundle was written by the run       *)
(* itself or by an ocm invocation.                                         *)
C27_ProvisioningNeverUsesClusterCLI ==
    (cmd = Provisioning /\ ~o.skipCollection) =>
        /\ ocVerbs = {}
        /\ ~Has("cluster-info")
        /\ (files \ {OutputDir, Tarball, SummaryFile, AnalysisFile(cmd),
                      File("00", "INSTALL-LOGS-COLLECTION", "", "txt")}) # {} => ocmUsed

C27_Witness ==
    /\ cmd = Provisioning /\ ~o.skipCollection /\ pc = "done" /\ result = "nil"
    /\ o.clusterInternalID # "" /\ ocmUsed /\ ocVerbs = {}
    /\ {InstallLogsFile, File("02", "cluster-info-ocm", "", "json"),
         File("03", "cluster-events-ocm", "", "txt"), SummaryFile, Tarball} \subseteq files

---------------------------------------------------------------------------
(* complete(): how the LLM settings are resolved from the flags, the       *)
(* ~/.config/osdctl file and the environment.                              *)

Quotes == {"\"", "'"}

EnvKeyNames == <<"LLM_API_KEY", "OPENAI_API_KEY", "ANTHROPIC_API_KEY", "GOOGLE_API_KEY">>
EnvURLNames == <<"LLM_BASE_URL", "OPENAI_BASE_URL", "ANTHROPIC_BASE_URL", "GOOGLE_BASE_URL">>
EnvModelNames ==
    <<"LLM_MODEL", "AI_MODEL_NAME", "OPENAI_MODEL", "ANTHROPIC_MODEL", "GOOGLE_MODEL">>
EnvNames == Range(EnvKeyNames) \cup Range(EnvURLNames) \cup Range(EnvModelNames)
ConfigKeys == {"OPENAI_API_KEY", "OPENAI_BASE_URL", "AI_MODEL_NAME"}

DefaultBaseURL == <<"https://api.openai.com/v1">>
DefaultModel == <<"gpt-4o-mini">>

(* Faulty variant: the environment is looked at before the config file.    *)
loadConfigValue_envFirst(configKey, envVarName, defaultValue, in) ==
    IF envVarName # "" /\ in.env[envVarName] # <<>>
    THEN TrimSpace(in.env[envVarName])
    ELSE IF in.config[configKey] # <<>>
         THEN TrimSpace(Trim(in.config[configKey], Quotes))
         ELSE defaultValue

(* loadConfigValue: the config file value (quotes and blanks trimmed) when *)
(* it is not empty, else the environment variable, else the default.  A    *)
(* missing or unreadable config file gives empty values.                   *)
loadConfigValue(configKey, envVarName, defaultValue, in) ==
    IF in.config[configKey] # <<>>
    THEN TrimSpace(Trim(in.config[configKey], Quotes))
    ELSE IF envVarName # "" /\ in.env[envVarName] # <<>>
         THEN TrimSpace(in.env[envVarName])
         ELSE defaultValue

(* The loop over environment variable names: the first one that is set,    *)
(* trimmed; `current` when none is.                                        *)
RECURSIVE firstEnv(_, _, _)
firstEnv(names, env, current) ==
    IF names = <<>> THEN current
    ELSE IF env[Head(names)] # <<>> THEN TrimSpace(env[Head(names)])
    ELSE firstEnv(Tail(names), env, current)

complete_llmAPIKey(in) ==
    IF in.keyFlag = <<>>
    THEN LET configKey == loadConfigValue("OPENAI_API_KEY", "OPENAI_API_KEY", <<>>, in)
         IN  IF configKey # <<>> THEN configKey
             ELSE firstEnv(EnvKeyNames, in.env, <<>>)
    ELSE TrimSpace(in.keyFlag)

complete_llmBaseURL(in) ==
    IF in.urlFlag = <<>>
    THEN LET configURL == loadConfigValue("OPENAI_BASE_URL", "OPENAI_BASE_URL", <<>>, in)
         IN  IF configURL # <<>> THEN configURL
             ELSE LET envURL == firstEnv(EnvURLNames, in.env, <<>>)
                  IN  IF envURL = <<>> THEN DefaultBaseURL ELSE envURL
    ELSE in.urlFlag

complete_llmModel(in) ==
    IF ~in.modelChanged
    THEN LET configModel == loadConfigValue("AI_MODEL_NAME", "AI_MODEL_NAME", <<>>, in)
         IN  IF configModel # <<>> THEN configModel
             ELSE firstEnv(EnvModelNames, in.env, in.modelFlag)
    ELSE in.modelFlag

(* len(s): the bytes of the string in UTF-8.  A character written as      *)
(* itself is one byte; one named by its code point takes one byte below    *)
(* U+0080, two below U+0800, three below U+10000 and four above.           *)
RECURSIVE ByteLen(_)
ByteLen(s) ==
    IF s = <<>> THEN 0
    ELSE LET c == Head(s)
             bytes == IF Len(c) = 1 THEN 1
                      ELSE IF Len(c) > 6 THEN 4
                      ELSE IF SubSeq(c, 3, 4) = "00"
                              /\ SubSeq(c, 5, 5) \in {"0", "1", "2", "3", "4", "5", "6", "7"}
                           THEN 1
                      ELSE IF SubSeq(c, 3, 3) = "0"
                              /\ SubSeq(c, 4, 4) \in {"0", "1", "2", "3", "4", "5", "6", "7"}
                           THEN 2
                      ELSE 3
         IN  bytes + ByteLen(Tail(s))

validateAPIKey(apiKey) ==
    IF apiKey = <<>> THEN "API key is empty"
    ELSE IF TrimSpace(apiKey) # apiKey THEN "API key contains leading or trailing whitespace"
    ELSE IF ByteLen(apiKey) < 10 THEN "API key appears too short"
    ELSE "nil"

(* Faulty variant: a missing API key is let through.                       *)
complete_validate_lenient(key, in) ==
    IF key = <<>> THEN "nil" ELSE validateAPIKey(key)

(* The checks complete() makes on the resolved API key.                    *)
complete_validate(key, in) ==
    IF key = <<>>
    THEN IF \E n \in Range(EnvKeyNames) : in.env[n] # <<>>
         THEN "API key from environment appears to be empty"
         ELSE "no API key provided"
    ELSE validateAPIKey(key)

Completed(skip, enable, key, url, model, err, dir) ==
    [done |-> TRUE, skipCollection |-> skip, enableLLMAnalysis |-> enable,
     llmAPIKey |-> key, llmBaseURL |-> url, llmModel |-> model, err |-> err,
     outputDir |-> dir]

DefaultOutputDir == "<subcommand>-diagnostics-<timestamp>"

(* The output directory: the existing directory in analyze-existing mode,  *)
(* else --output-dir, else the timestamped default.                        *)
complete_outputDir(in) ==
    IF in.existing = "dir" THEN in.existingDir
    ELSE IF in.outputDir = "" THEN DefaultOutputDir ELSE in.outputDir

complete(in) ==
    IF in.existing \in {"missing", "file"}
    THEN Completed(FALSE, in.analyze, in.keyFlag, in.urlFlag, in.modelFlag,
                   IF in.existing = "missing"
                   THEN "existing directory does not exist or is not accessible"
                   ELSE "path is not a directory", in.outputDir)
    ELSE LET skip == in.existing = "dir"
             enable == in.analyze \/ skip
             dir == complete_outputDir(in)
         IN  IF ~enable
             THEN Completed(skip, enable, in.keyFlag, in.urlFlag, in.modelFlag, "nil", dir)
             ELSE LET key == complete_llmAPIKey(in)
                  IN  Completed(skip, enable, key, complete_llmBaseURL(in),
                                complete_llmModel(in),
                                complete_validate(key, in), dir)

(* The command lines, config files and environments complete() is tried   *)
(* on.  Every source of a setting is either empty or holds a value of its  *)
(* own, bare or wrapped in blanks (and quotes, in the config file); one    *)
(* setting is varied at a time.                                            *)

Key(c) == Rep(c, 10)
Padded(v) == <<" ">> \o v \o <<"\f">>
Quoted(v) == <<"\"", " ">> \o v \o <<" ", "\"">>

NoEnv == [n \in EnvNames |-> <<>>]
NoConfig == [k \in ConfigKeys |-> <<>>]

BaseInput ==
    [analyze |-> TRUE, existing |-> "", existingDir |-> "", outputDir |-> "",
     keyFlag |-> Key("f"), urlFlag |-> <<>>,
     modelFlag |-> DefaultModel, modelChanged |-> FALSE,
     config |-> NoConfig, env |-> NoEnv]

(* Environments over the given names: each name unset or set to a value    *)
(* named after it; the first name may also hold its value padded.          *)
EnvValue(setting, n, how) ==
    LET v == IF setting = "key" THEN Key("e") \o <<n>> ELSE <<n>>
    IN  CASE how = "unset" -> <<>> [] how = "set" -> v [] how = "padded" -> Padded(v)

EnvChoices(setting, names) ==
    { [n \in EnvNames |-> IF n \in Range(names) THEN EnvValue(setting, n, f[n]) ELSE <<>>] :
        f \in { g \in [Range(names) -> {"unset", "set", "padded"}] :
                    \A n \in Range(names) : g[n] = "padded" => n = names[1] } }

ConfigChoices(k, v) ==
    { [NoConfig EXCEPT ![k] = c] : c \in {<<>>, v, Quoted(v)} }

KeyInputs ==
    { [BaseInput EXCEPT !.keyFlag = f, !.config = c, !.env = e] :
        f \in {<<>>, Key("f"), Padded(Key("f")), Rep("f", 9),
               Rep("f", 8) \o <<"U+00E9">>},
        c \in ConfigChoices("OPENAI_API_KEY", Key("c")),
        e \in EnvChoices("key", EnvKeyNames) }

URLInputs ==
    { [BaseInput EXCEPT !.urlFlag = f, !.config = c, !.env = e] :
        f \in {<<>>, <<"https://flag">>},
        c \in ConfigChoices("OPENAI_BASE_URL", <<"https://config">>),
        e \in EnvChoices("url", EnvURLNames) }

ModelInputs ==
    { [BaseInput EXCEPT !.modelFlag = f[1], !.modelChanged = f[2], !.config = c, !.env = e] :
        f \in {<<DefaultModel, FALSE>>, <<<<"flag-model">>, TRUE>>, <<DefaultModel, TRUE>>},
        c \in ConfigChoices("AI_MODEL_NAME", <<"config-model">>),
        e \in EnvChoices("model", EnvModelNames) }

ModeInputs ==
    { [BaseInput EXCEPT !.analyze = a, !.existing = x, !.keyFlag = f,
                        !.existingDir = IF x = "" THEN "" ELSE "old-bundle",
                        !.outputDir = d, !.env = e] :
        a \in BOOLEAN, x \in {"", "dir", "missing", "file"},
        f \in {<<>>, Key("f"), <<"s", "h", "o", "r", "t">>},
        d \in {"", "out"},
        e \in {NoEnv, [NoEnv EXCEPT !["GOOGLE_API_KEY"] = Key("e")]} }

CompleteInputs == KeyInputs \cup URLInputs \cup ModelInputs \cup ModeInputs

NotCompleted == [done |-> FALSE]

InitComplete ==
    /\ cin \in CompleteInputs
    /\ cout = NotCompleted
    /\ RunIdle /\ ExtractIdle /\ DirIdle /\ CallIdle

Complete ==
    /\ pc = "idle" /\ xcmd = "" /\ ~cout.done
    /\ cout' = complete(cin)
    /\ UNCHANGED <<cin, runVars, extractVars, dirVars, callVars>>

NextComplete == Complete

SpecComplete == InitComplete /\ [][NextComplete]_vars

Settings == {"llmAPIKey", "llmBaseURL", "llmModel"}

FlagSet(in, setting) ==
    CASE setting = "llmAPIKey" -> in.keyFlag # <<>>
      [] setting = "llmBaseURL" -> in.urlFlag # <<>>
      [] setting = "llmModel" -> in.modelChanged

FlagValue(in, setting) ==
    CASE setting = "llmAPIKey" -> TrimSpace(in.keyFlag)
      [] setting = "llmBaseURL" -> in.urlFlag
      [] setting = "llmModel" -> in.modelFlag

ConfigValue(in, setting) ==
    CASE setting = "llmAPIKey" -> in.config["OPENAI_API_KEY"]
      [] setting = "llmBaseURL" -> in.config["OPENAI_BASE_URL"]
      [] setting = "llmModel" -> in.config["AI_MODEL_NAME"]

EnvValues(in, setting) ==
    LET names == CASE setting = "llmAPIKey" -> EnvKeyNames
                   [] setting = "llmBaseURL" -> EnvURLNames
                   [] setting = "llmModel" -> EnvModelNames
    IN  {TrimSpace(in.env[n]) : n \in {m \in Range(names) : in.env[m] # <<>>}}

BuiltIn(setting) ==
    CASE setting = "llmAPIKey" -> <<>>
      [] setting = "llmBaseURL" -> DefaultBaseURL
      [] setting = "llmModel" -> DefaultModel

(* C2: with analysis enabled, each LLM setting is taken from the flag when *)
(* the flag is set, else from the config file when it holds a value, else  *)
(* from an environment variable when one is set, else it is the built-in   *)
(* default (none for the API key, and complete() fails).                   *)
C2_SettingPriority ==
    (cout.done /\ cout.enableLLMAnalysis /\ cin.existing \in {"", "dir"}) =>
        \A setting \in Settings :
            IF FlagSet(cin, setting)
            THEN cout[setting] = FlagValue(cin, setting)
            ELSE IF ConfigValue(cin, setting) # <<>>
            THEN cout[setting] = TrimSpace(Trim(ConfigValue(cin, setting), Quotes))
            ELSE IF EnvValues(cin, setting) # {}
            THEN cout[setting] \in EnvValues(cin, setting)
            ELSE /\ cout[setting] = BuiltIn(setting)
                 /\ setting = "llmAPIKey" => cout.err # "nil"

C2_Witness ==
    /\ cout.done /\ cout.err = "nil"
    /\ cin.keyFlag = <<>>
    /\ cin.config["OPENAI_API_KEY"] = Quoted(Key("c"))
    /\ cin.env["OPENAI_API_KEY"] # <<>> /\ cin.env["LLM_API_KEY"] # <<>>
    /\ cout.llmAPIKey = Key("c")

(* The API key is left to the environment: complete() gets as far as the  *)
(* LLM settings with analysis enabled, no key flag was given and the       *)
(* config file holds no key.                                               *)
KeyFromEnvironment ==
    /\ cout.done /\ cout.enableLLMAnalysis /\ cin.existing \in {"", "dir"}
    /\ cin.keyFlag = <<>> /\ cin.config["OPENAI_API_KEY"] = <<>>

KeyVariableOrder == <<"LLM_API_KEY", "OPENAI_API_KEY", "ANTHROPIC_API_KEY", "GOOGLE_API_KEY">>
KeyVariablesSet == {i \in 1..Len(KeyVariableOrder) : cin.env[KeyVariableOrder[i]] # <<>>}

(* C26: when the API key comes from the environment it is the (trimmed)    *)
(* value of the first non-empty variable in the order LLM_API_KEY,         *)
(* OPENAI_API_KEY, ANTHROPIC_API_KEY, GOOGLE_API_KEY.                      *)
C26_FirstNonEmptyKeyVariable ==
    (KeyFromEnvironment /\ KeyVariablesSet # {}) =>
        LET first == CHOOSE i \in KeyVariablesSet : \A j \in KeyVariablesSet : i <= j
        IN  cout.llmAPIKey = TrimSpace(cin.env[KeyVariableOrder[first]])

C26_Witness ==
    /\ KeyFromEnvironment /\ cout.err = "nil"
    /\ cin.env["LLM_API_KEY"] # <<>> /\ cin.env["OPENAI_API_KEY"] # <<>>
    /\ cin.env["LLM_API_KEY"] # cin.env["OPENAI_API_KEY"]
    /\ cout.llmAPIKey = cin.env["OPENAI_API_KEY"]

NoKeySupplied(in) ==
    /\ in.keyFlag = <<>>
    /\ in.config["OPENAI_API_KEY"] = <<>>
    /\ \A n \in Range(EnvKeyNames) : in.env[n] = <<>>

(* C14: complete() called with an analyze-existing path that is an         *)
(* existing directory returns no error and leaves the options in           *)
(* analysis-only mode: outputDir equals that directory, skipCollection is  *)
(* true and enableLLMAnalysis is true.                                     *)
C14_ExistingDirAnalysisOnly ==
    (cout.done /\ cin.existing = "dir") =>
        /\ cout.err = "nil"
        /\ cout.outputDir = cin.existingDir
        /\ cout.skipCollection /\ cout.enableLLMAnalysis

(* The call of the completeWithExistingDir tests: only the existing        *)
(* directory is given, no key by flag, configuration file or environment.  *)
C14_Witness ==
    /\ cout.done /\ cin.existing = "dir" /\ ~cin.analyze /\ NoKeySupplied(cin)
    /\ cout.outputDir = "old-bundle" /\ cout.skipCollection /\ cout.enableLLMAnalysis
    /\ cout.err = "no API key provided"

(* C15: when LLM analysis is enabled and no API key is supplied by the     *)
(* flag, the configuration file or any recognized environment variable,    *)
(* complete() returns an error.                                            *)
C15_NoKeyIsAnError ==
    (cout.done /\ (cin.analyze \/ cin.existing # "") /\ NoKeySupplied(cin)) =>
        cout.err # "nil"

C15_Witness ==
    /\ cout.done /\ cin.analyze /\ cin.existing = "" /\ NoKeySupplied(cin)
    /\ cout.enableLLMAnalysis /\ cout.llmAPIKey = <<>>
    /\ cout.err = "no API key provided"

---------------------------------------------------------------------------
(* extractAndReadDiagnostics(): which files are read, in which order, and  *)
(* how much of each goes into the diagnostic content.                      *)

(* Pods whose log and describe files lie in the directory, sorted.         *)
DirPodNames == <<"pod-a", "pod-b", "pod-c", "pod-d", "pod-e", "pod-f", "pod-g">>

Slot(file, rule) == [file |-> file, rule |-> rule]
YamlSlots(num, names, rule) ==
    [i \in 1..Len(names) |-> Slot(File(num[i], names[i], "", "yaml"), rule)]
TxtSlots(num, names, rule) ==
    [i \in 1..Len(names) |-> Slot(File(num[i], names[i], "", "txt"), rule)]

(* The first five of the files a glob NN-name-*.txt finds.                 *)
GlobSlots(num, name, n, rule) ==
    [i \in 1..(IF n > 5 THEN 5 ELSE n) |-> Slot(File(num, name, DirPodNames[i], "txt"), rule)]

pruningCronjob_extractSlots(n) ==
    TxtSlots(<<"00", "01", "02", "14", "16", "05">>,
             <<"SUMMARY", "jobs", "pods", "seccomp-errors", "job-history", "events">>,
             "whole")
    \o GlobSlots("03", "pod-logs", n, "head10000")
    \o GlobSlots("04", "pod-describe", n, "whole")

errorBudgetBurn_extractSlots(n) ==
    TxtSlots(<<"00", "01", "02", "03", "04", "05", "06">>,
             <<"SUMMARY", "monitoring-clusteroperator", "monitoring-pods",
               "monitoring-events", "prometheus-crds", "cmo-logs", "resource-quotas">>,
             "whole")
    \o YamlSlots(<<"01", "02", "04", "07">>,
                 <<"monitoring-clusteroperator", "monitoring-pods", "prometheus-crds",
                   "cluster-version">>,
                 "head15000")

dynatrace_extractSlots(n) ==
    TxtSlots(<<"00", "01", "02", "03", "04", "06">>,
             <<"SUMMARY", "deployments", "statefulsets-activegate", "daemonsets-oneagent",
               "pods", "events">>,
             "whole")
    \o YamlSlots(<<"01", "02", "03", "04">>,
                 <<"deployments", "statefulsets-activegate", "daemonsets-oneagent", "pods">>,
                 "head15000")
    \o GlobSlots("05", "pod-describe", n, "whole")
    \o [i \in 1..Len(Components) |-> Slot(File("07", "logs", Components[i], "txt"), "head10000")]

provisioning_extractSlots(n) ==
    TxtSlots(<<"00", "01", "02", "03">>,
             <<"SUMMARY", "install-logs", "cluster-info-ocm", "cluster-events-ocm">>,
             "priority")
    \o <<Slot(File("02", "cluster-info-ocm", "", "json"), "head10000")>>

extractSlots(c, n) ==
    CASE c = Pruning -> pruningCronjob_extractSlots(n)
      [] c = Budget -> errorBudgetBurn_extractSlots(n)
      [] c = Dynatrace -> dynatrace_extractSlots(n)
      [] c = Provisioning -> provisioning_extractSlots(n)

Piece(head, marker, tail) == [head |-> head, marker |-> marker, tail |-> tail]
Head10000(size) ==
    IF size > 10000 THEN Piece(10000, "\n... (truncated)", 0) ELSE Piece(size, "", 0)
Head15000(size) ==
    IF size > 15000 THEN Piece(15000, "\n... (truncated)", 0) ELSE Piece(size, "", 0)

(* What goes into the content of a file of `size` bytes: its first `head`  *)
(* bytes, a marker, its last `tail` bytes.                                 *)
truncate(slot, size) ==
    CASE slot.rule = "whole" -> Piece(size, "", 0)
      [] slot.rule = "head10000" -> Head10000(size)
      [] slot.rule = "head15000" -> Head15000(size)
      [] slot.rule = "priority" ->
            IF BaseName(slot.file) = "01-install-logs.txt" /\ size > 20000
            THEN Piece(10000, "\n\n... (middle section truncated) ...\n\n", 10000)
            ELSE Head15000(size)

PieceLen(p) == p.head + Len(p.marker) + p.tail

FileSizes == {100, 12000, 18000, MaxFileSize}

NoPiece == [read |-> FALSE, size |-> 0, piece |-> Piece(0, "", 0)]

InitExtract ==
    /\ xcmd \in Subcommands
    /\ xdir \in 0..MaxDirPods
    /\ xi = 1 /\ xpiece = NoPiece /\ xcount = 0 /\ xmax = 0
    /\ RunIdle /\ CompleteIdle /\ DirIdle /\ CallIdle

(* One file of the list is read; a file that is missing or unreadable      *)
(* adds nothing.                                                           *)
ReadDiagnosticFile ==
    /\ pc = "idle" /\ xi >= 1 /\ xi <= Len(extractSlots(xcmd, xdir))
    /\ LET slot == extractSlots(xcmd, xdir)[xi]
       IN  \/ \E size \in FileSizes :
                /\ xpiece' = [read |-> TRUE, size |-> size, piece |-> truncate(slot, size)]
                /\ xcount' = xcount + 1
                /\ xmax' = IF PieceLen(truncate(slot, size)) > xmax
                           THEN PieceLen(truncate(slot, size)) ELSE xmax
           \/ xpiece' = NoPiece /\ UNCHANGED <<xcount, xmax>>
    /\ xi' = xi + 1
    /\ UNCHANGED <<xcmd, xdir, runVars, completeVars, dirVars, callVars>>

NextExtract == ReadDiagnosticFile

SpecExtract == InitExtract /\ [][NextExtract]_vars

(* C7: every file that goes into the diagnostic content is cut to a        *)
(* bounded size, at most about 20 KB, so that the content is bounded       *)
(* whatever the size of the collected files.                               *)
C7_EveryFileCut ==
    /\ xpiece.read => PieceLen(xpiece.piece) <= 20 * 1024
    /\ xmax <= 20 * 1024

C7_Witness ==
    /\ xcmd = Pruning /\ xi = 2
    /\ xpiece.read /\ xpiece.size = MaxFileSize
    /\ PieceLen(xpiece.piece) = MaxFileSize

(* The file the last step looked at, and whether it is a log.              *)
LastSlot == extractSlots(xcmd, xdir)[xi - 1]
LogNames == {"pod-logs", "cmo-logs", "logs", "install-logs"}
Truncated(p) == p.marker # ""

(* C13: whenever a log file is truncated for the analysis pass, the        *)
(* truncated text keeps both the beginning and the end of the log.         *)
C13_TruncationKeepsBothEnds ==
    (xi > 1 /\ xpiece.read /\ LastSlot.file.name \in LogNames /\ Truncated(xpiece.piece)) =>
        xpiece.piece.head > 0 /\ xpiece.piece.tail > 0

C13_Witness ==
    /\ xcmd = Pruning /\ xi > 1 /\ xpiece.read
    /\ LastSlot.file.name = "pod-logs" /\ xpiece.size = MaxFileSize
    /\ Truncated(xpiece.piece)
    /\ xpiece.piece.head = 10000 /\ xpiece.piece.tail = 0

---------------------------------------------------------------------------
(* The default output directory: complete() names it after the wall clock, *)
(* run() creates it and writes into it.  Several runs share the disk.      *)

MaxTicks == 2
MaxRuns == 2
MaxDirSteps == 2
TicksPerSecond == 2

DirPrefix(c) ==
    CASE c = Pruning -> "pruning-cronjob-diagnostics-"
      [] c = Budget -> "cluster-monitoring-error-budget-burn-diagnostics-"
      [] c = Dynatrace -> "dynatrace-monitoring-stack-down-diagnostics-"
      [] c = Provisioning -> "cluster-provisioning-failure-diagnostics-"

(* time.Now().Format("20060102-150405"): the clock cut to whole seconds.   *)
FormatTimestamp(t) == t \div TicksPerSecond

defaultOutputDir(c, t) == <<DirPrefix(c), FormatTimestamp(t)>>

(* What a run writes first: cluster-info.txt (writeFile, then the output   *)
(* of `oc cluster-info` appended by the command executor) for the oc-based *)
(* subcommands, then the calls of its first collector; the first           *)
(* MaxDirSteps operations are followed.                                    *)
DirSteps(c) ==
    LET all == (IF c = Provisioning THEN <<>>
                ELSE <<Write(ClusterInfoFile), Exec(ClusterInfo, ClusterInfoFile)>>)
               \o CollectorResult(c, Collectors(c)[1], NoOptions,
                      [pods |-> <<>>, jobs |-> 0, dt |-> FALSE,
                       fail |-> {}, left |-> {}]).ops
    IN  SubSeq(all, 1, IF Len(all) < MaxDirSteps THEN Len(all) ELSE MaxDirSteps)

Writers(dir, file) == {e[3] : e \in {d \in ddisk : d[1] = dir /\ d[2] = file}}

(* The writes `oc` makes to its output file while cmd.Run waits for it.    *)
MaxExecWrites == 2

Suffixes(s) == {SubSeq(s, k, Len(s)) : k \in 1..(Len(s) + 1)}

(* The file is opened: os.WriteFile (and os.Create) truncate it; the        *)
(* command executor opens with O_CREATE|O_APPEND and keeps what is there.  *)
DiskOpened(op, dir) ==
    LET kept == {d \in ddisk : ~(d[1] = dir /\ d[2] = op.file)}
    IN  IF op.kind = "exec" /\ Writers(dir, op.file) # {} THEN ddisk
        ELSE kept \cup {<<dir, op.file, <<>>>>}

(* One write by run r to the file it has open, as the disks it may leave.  *)
(* A file opened with O_APPEND is written at its end.  os.WriteFile writes *)
(* at the start of the file it truncated: what other runs wrote there      *)
(* since is overwritten as far as the new text reaches.                    *)
DiskAfter(op, dir, r) ==
    LET old == IF Writers(dir, op.file) = {} THEN <<>>
               ELSE CHOOSE w \in Writers(dir, op.file) : TRUE
        kept == {d \in ddisk : ~(d[1] = dir /\ d[2] = op.file)}
    IN  IF op.kind = "exec" THEN {kept \cup {<<dir, op.file, Append(old, r)>>}}
        ELSE {kept \cup {<<dir, op.file, <<r>> \o rest>>} : rest \in Suffixes(old)}

InitDir ==
    /\ dnow = 0 /\ druns = <<>> /\ ddisk = {}
    /\ RunIdle /\ CompleteIdle /\ ExtractIdle /\ CallIdle

Tick ==
    /\ pc = "idle" /\ cin = <<>> /\ xcmd = ""
    /\ dnow < MaxTicks
    /\ dnow' = dnow + 1
    /\ UNCHANGED <<druns, ddisk, runVars, completeVars, extractVars, callVars>>

(* complete() of a new run names the directory; run() has not started.     *)
StartRun ==
    /\ pc = "idle" /\ cin = <<>> /\ xcmd = ""
    /\ Len(druns) < MaxRuns
    /\ \E c \in Subcommands :
        druns' = Append(druns, [cmd |-> c, dir |-> defaultOutputDir(c, dnow),
                                started |-> dnow, step |-> 0,
                                open |-> FALSE, wrote |-> 0])
    /\ UNCHANGED <<dnow, ddisk, runVars, completeVars, extractVars, callVars>>

(* os.MkdirAll of one of the runs, which is content with a directory that  *)
(* exists.                                                                 *)
RunMkdir ==
    /\ pc = "idle" /\ cin = <<>> /\ xcmd = ""
    /\ \E r \in 1..Len(druns) :
        /\ druns[r].step = 0
        /\ druns' = [druns EXCEPT ![r].step = 1]
    /\ UNCHANGED <<dnow, ddisk, runVars, completeVars, extractVars, callVars>>

(* One of the runs opens the file of its next operation.                   *)
RunOpens ==
    /\ pc = "idle" /\ cin = <<>> /\ xcmd = ""
    /\ \E r \in 1..Len(druns) :
        /\ druns[r].step \in 1..Len(DirSteps(druns[r].cmd)) /\ ~druns[r].open
        /\ druns' = [druns EXCEPT ![r].open = TRUE, ![r].wrote = 0]
        /\ ddisk' = DiskOpened(DirSteps(druns[r].cmd)[druns[r].step], druns[r].dir)
    /\ UNCHANGED <<dnow, runVars, completeVars, extractVars, callVars>>

(* One write to the file a run has open: the one write of os.WriteFile, or *)
(* one of the writes of the command the executor waits for.                *)
RunWrites ==
    /\ pc = "idle" /\ cin = <<>> /\ xcmd = ""
    /\ \E r \in 1..Len(druns) :
        LET op == DirSteps(druns[r].cmd)[druns[r].step]
        IN  /\ druns[r].open
            /\ druns[r].wrote < (IF op.kind = "exec" THEN MaxExecWrites ELSE 1)
            /\ druns' = [druns EXCEPT ![r].wrote = @ + 1]
            /\ ddisk' \in DiskAfter(op, druns[r].dir, r)
    /\ UNCHANGED <<dnow, runVars, completeVars, extractVars, callVars>>

(* The operation returns and the file is closed: os.WriteFile after its    *)
(* write, cmd.Run when the command ends, whatever it wrote.                *)
RunReturns ==
    /\ pc = "idle" /\ cin = <<>> /\ xcmd = ""
    /\ \E r \in 1..Len(druns) :
        LET op == DirSteps(druns[r].cmd)[druns[r].step]
        IN  /\ druns[r].open
            /\ op.kind # "exec" => druns[r].wrote = 1
            /\ druns' = [druns EXCEPT ![r].open = FALSE, ![r].wrote = 0,
                                      ![r].step = @ + 1]
    /\ UNCHANGED <<dnow, ddisk, runVars, completeVars, extractVars, callVars>>

NextDir == Tick \/ StartRun \/ RunMkdir \/ RunOpens \/ RunWrites \/ RunReturns

SpecDir == InitDir /\ [][NextDir]_vars

(* C11: two runs of the same subcommand always write to different          *)
(* directories, so no file on disk was written, overwritten or appended to *)
(* by more than one run.                                                   *)
C11_RunsNeverShareDirectory ==
    /\ \A r1, r2 \in 1..Len(druns) :
          (r1 # r2 /\ druns[r1].cmd = druns[r2].cmd) => druns[r1].dir # druns[r2].dir
    /\ \A d \in ddisk : \A i \in 1..Len(d[3]) : d[3][i] = d[3][1]

C11_Witness ==
    /\ Len(druns) = 2 /\ druns[1].cmd = Provisioning /\ druns[2].cmd = Provisioning
    /\ druns[1].step > Len(DirSteps(Provisioning))
    /\ druns[1].started < druns[2].started
    /\ druns[1].dir = druns[2].dir
    /\ \E d \in ddisk : d[1] = druns[1].dir /\ d[3] = <<2>>

---------------------------------------------------------------------------
(* One collector called on its own, as the unit tests call it: an options  *)
(* struct as complete() leaves it (the internal ID is resolved from the    *)
(* cluster ID, so it is set only when the cluster ID is), any answer of    *)
(* the environment, any of its calls failing.                              *)

CallOptions(c) ==
    IF c = Provisioning
    THEN { opts \in { [NoOptions EXCEPT !.clusterID = cid, !.clusterInternalID = iid] :
                          cid \in {"", "cid"}, iid \in {"", "iid"} } :
              opts.clusterInternalID # "" => opts.clusterID # "" }
    ELSE { NoOptions }

(* The listings a mocked commandRunner may answer with.                    *)
CallPhases == Phases \cup {"Failed"}
CallPodLists == UNION {[1..n -> CallPhases] : n \in 0..MaxCallPods}
CallPodEnvs(c, name) == IF PodEnvs(c, name) = {<<>>} THEN {<<>>} ELSE CallPodLists

(* The calls of the collector that fail: none, one, two, or all of them.  *)
CallFailures(n) ==
    {{}} \cup {{i, j} : i \in 1..n, j \in 1..n} \cup {1..n}

CallEnvs(c, name, opts) ==
    UNION { LET base == [pods |-> pods, jobs |-> jobs, dt |-> dt, fail |-> {}, left |-> {}]
                calls == Len(CollectorResult(c, name, opts, base).ops)
            IN  UNION { { [base EXCEPT !.fail = fail, !.left = left] :
                            left \in LeftSets(CollectorResult(c, name, opts,
                                         [base EXCEPT !.fail = fail]).ops, fail) } :
                        fail \in CallFailures(calls) } :
            pods \in CallPodEnvs(c, name), jobs \in JobEnvs(c, name),
            dt \in DtEnvs(c, name) }

CollectorCalls(c) ==
    UNION { UNION { { [cmd |-> c, name |-> Collectors(c)[i], opts |-> opts,
                        env |-> env] :
                        env \in CallEnvs(c, Collectors(c)[i], opts) } :
                    opts \in CallOptions(c) } :
            i \in 1..Len(Collectors(c)) }

InitCall ==
    /\ \E c \in Subcommands : call \in CollectorCalls(c)
    /\ outcome = <<>>
    /\ RunIdle /\ CompleteIdle /\ ExtractIdle /\ DirIdle

(* The collector runs to its end.                                          *)
(* The note file holds the whole note after a successful write.  A failed  *)
(* write that left the file holds the lines written before the failure,    *)
(* possibly none.                                                          *)
CallCollector ==
    /\ call # <<>> /\ outcome = <<>>
    /\ LET r == CollectorResult(call.cmd, call.name, call.opts, call.env)
           noteFile == File("00", "INSTALL-LOGS-COLLECTION", "", "txt")
           note == createInstallLogsNote_note(call.opts)
       IN  \E k \in 0..Len(note) :
             /\ noteFile \notin r.written => k = 0
             /\ (noteFile \in r.written /\ r.ret = "nil") => k = Len(note)
             /\ outcome' = [ops |-> r.ops, written |-> r.written, ret |-> r.ret,
                            note |-> Range(SubSeq(note, 1, k))]
    /\ UNCHANGED <<call, runVars, completeVars, extractVars, dirVars>>

NextCall == CallCollector

SpecCollector == InitCall /\ [][NextCall]_vars

Called(c, name) == call # <<>> /\ outcome # <<>> /\ call.cmd = c /\ call.name = name

(* C18: whenever the internal ID is known the note written by              *)
(* createInstallLogsNote gives the install-log command with that ID, and   *)
(* the ${INTERNAL_ID} placeholder appears only when it is unknown.         *)
C18_ConcreteCommandWhenIDKnown ==
    (Called(Provisioning, "createInstallLogsNote") /\ outcome.ret = "nil") =>
        /\ call.opts.clusterInternalID # "" =>
              InstallLogsCommand(call.opts.clusterInternalID) \in outcome.note
        /\ InstallLogsCommand(InternalIDPlaceholder) \in outcome.note =>
              call.opts.clusterInternalID = ""

C18_Witness ==
    /\ Called(Provisioning, "createInstallLogsNote") /\ outcome.ret = "nil"
    /\ call.opts.clusterID = "cid" /\ call.opts.clusterInternalID = "iid"
    /\ InstallLogsCommand("iid") \in outcome.note
    /\ InstallLogsCommand(InternalIDPlaceholder) \notin outcome.note


(* The describe invocations of the call, those that succeeded, and the     *)
(* describe files it left.                                                 *)
DescribesDone ==
    {outcome.ops[k].file : k \in {j \in Indices(outcome.ops) :
        /\ outcome.ops[j].kind = "exec" /\ outcome.ops[j].verb = Describe
        /\ j \notin call.env.fail}}
DescribeCalls == SelectSeq(outcome.ops, LAMBDA op : op.kind = "exec" /\ op.verb = Describe)
DescribeFiles == {f \in outcome.written : f.num = "05" /\ f.name = "pod-describe"}
NotHealthy == {i \in 1..Len(call.env.pods) : call.env.pods[i] \notin {"Running", "Succeeded"}}

(* C19 (amended): the Dynatrace collectPods collector describes exactly    *)
(* the pods of the listing whose phase is neither Running nor Succeeded:   *)
(* one describe invocation per such pod, writing to                        *)
(* 05-pod-describe-<name>.txt, and none when every pod is Running or       *)
(* Succeeded.  The file of every describe that succeeded is there, and no  *)
(* describe file of any other pod; a describe that failed is ignored and   *)
(* may or may not have left its file.                                      *)
C19_DescribesExactlyFailingPods ==
    Called(Dynatrace, "collectPods") =>
        /\ outcome.ret = "nil"
        /\ Len(DescribeCalls) = Cardinality(NotHealthy)
        /\ {DescribeCalls[i].file : i \in 1..Len(DescribeCalls)} =
              {File("05", "pod-describe", PodName(i), "txt") : i \in NotHealthy}
        /\ DescribesDone \subseteq DescribeFiles
        /\ DescribeFiles \subseteq
              {File("05", "pod-describe", PodName(i), "txt") : i \in NotHealthy}
        /\ NotHealthy = {} => DescribeCalls = <<>> /\ DescribeFiles = {}

C19_Witness ==
    /\ Called(Dynatrace, "collectPods")
    /\ call.env.pods = <<"Succeeded", "Pending">>
    /\ Len(DescribeCalls) = 1
    /\ DescribesDone = DescribeFiles
    /\ DescribeFiles = {File("05", "pod-describe", "pod-b", "txt")}

(* C19 as written: one describe invocation and one describe file for each  *)
(* pod that is neither Running nor Succeeded.                              *)
C19_AsWritten ==
    Called(Dynatrace, "collectPods") =>
        /\ Len(DescribeCalls) = Cardinality(NotHealthy)
        /\ DescribeFiles = {File("05", "pod-describe", PodName(i), "txt") : i \in NotHealthy}


(* The command-executor invocations of the call, and the component log     *)
(* files it left.                                                          *)
ExecutorCalls == SelectSeq(outcome.ops, LAMBDA op : op.kind = "exec")
ComponentLogFile(name) == File("07", "logs", name, "txt")
FiveComponents == {"operator", "webhook", "otel", "activegate", "oneagent"}
ComponentLogFiles == {f \in outcome.written : f.num = "07" /\ f.name = "logs"}
FellBack == ~call.env.dt \/ 1 \in call.env.fail

(* C20 (amended): when the cluster ID, the Dynatrace cluster details or    *)
(* the access token cannot be had, collectComponentLogs falls back to oc:  *)
(* the command executor is invoked exactly once per component, in order,   *)
(* writing to 07-logs-<component>.txt, and the file of every invocation    *)
(* that succeeded is there (a failed one may or may not have left its      *)
(* file).  Otherwise the logs are fetched from Dynatrace: the executor is  *)
(* not invoked, and a file is left for exactly the components whose query  *)
(* and download succeeded.                                                 *)
C20_ComponentLogsByPath ==
    Called(Dynatrace, "collectComponentLogs") =>
        /\ outcome.ret = "nil"
        /\ FellBack =>
              /\ ExecutorCalls =
                    [i \in 1..5 |-> Exec(Logs, ComponentLogFile(Components[i]))]
              /\ {ExecutorCalls[i].file.arg : i \in 1..Len(ExecutorCalls)} = FiveComponents
              /\ ComponentLogFiles \subseteq {ComponentLogFile(n) : n \in FiveComponents}
              /\ \A i \in 1..5 : i + 1 \notin call.env.fail =>
                    ComponentLogFile(Components[i]) \in ComponentLogFiles
        /\ ~FellBack =>
              /\ ExecutorCalls = <<>>
              /\ ComponentLogFiles =
                    {ComponentLogFile(Components[i]) :
                        i \in {j \in 1..5 : j + 1 \notin call.env.fail}}

C20_Witness ==
    /\ Called(Dynatrace, "collectComponentLogs")
    /\ call.env.dt /\ call.env.fail = {3}
    /\ ExecutorCalls = <<>>
    /\ ComponentLogFiles = {ComponentLogFile(n) : n \in FiveComponents \ {"webhook"}}

(* C20 as written: the executor is invoked once for each of the five       *)
(* components and all five log files are left.                             *)
C20_AsWritten ==
    Called(Dynatrace, "collectComponentLogs") =>
        /\ Len(ExecutorCalls) = 5
        /\ {ExecutorCalls[i].file.arg : i \in 1..Len(ExecutorCalls)} = FiveComponents
        /\ ComponentLogFiles = {ComponentLogFile(n) : n \in FiveComponents}


=============================================================================
